---- MODULE Spec2Model ----
(***************************************************************************)
(* Google Docs MCP server: the Document API client (HTTP request helper,   *)
(* error classification, appendText), and the tool handlers registered on  *)
(* the MCP server, as a state machine of one tool call at a time.          *)
(***************************************************************************)
EXTENDS Integers, Sequences, FiniteSets, TLC

VARIABLES
    token,      \* credentials.accessToken held by the client (optional string)
    pc,         \* "idle" | "awaiting" (an outbound fetch is in flight) | "done"
    call,       \* the tool call being handled: [tool, args]
    netLog,     \* the outbound HTTP requests sent for this tool call, in order
    lastResp,   \* the remote response the request helper received last
    outcome,    \* what the request helper did with it: returned a value or threw
    invoked,    \* the client methods the handler has invoked in this tool call
    returned,   \* how the invoked client method ended: returned a value or threw
    result,     \* the envelope the tool call returned
    inbound,    \* the inbound HTTP request the Worker's fetch handler is serving
    httpReply,  \* the HTTP response the fetch handler returned for it
    serverBuilt, \* whether a server (and its client) was built for the inbound request
    ctx,        \* concurrent inbound requests: the context of each fetch invocation
    remoteEnd,  \* the end index of the last block of the remote document (2 when empty)
    earlier     \* how the earlier tool calls on this server ended: "ok" or "failed"

routerVars == <<inbound, httpReply, serverBuilt>>
vars == <<token, pc, call, netLog, lastResp, outcome, invoked, returned, result,
          inbound, httpReply, serverBuilt, ctx, remoteEnd, earlier>>

(***************************************************************************)
(* Bounds of the model.                                                    *)
(***************************************************************************)
MaxHdrLen == 2      \* longest Retry-After header value, in characters
MaxBlocks == 2      \* most content blocks in a fetched document body
MaxConcurrent == 2  \* inbound requests served concurrently
MaxRemoteEnd == 4   \* largest end index the remote document grows to
MaxEarlier == 2     \* most earlier tool calls remembered by the observer

(***************************************************************************)
(* JavaScript values.                                                      *)
(***************************************************************************)
\* An optional string: <<>> is undefined/absent, <<s>> is the string s.
Absent == <<>>
Str(s) == <<s>>
Truthy(o) == o # <<>> /\ o[1] # ""

\* A number or NaN, as parseInt produces.
Num(n) == [kind |-> "num", val |-> n]
NaN == [kind |-> "NaN", val |-> 0]
NoNum == [kind |-> "none", val |-> 0]

JUndefined == [t |-> "undefined"]
JNull == [t |-> "null"]
\* A parsed JSON object, with the members the program reads:
\*   error    <<>> when absent, else <<m>> with m the optional error.message
\*   message  optional string
\*   body     <<>> when absent, else <<c>> with c = <<>> (no content) or
\*            <<blocks>>, blocks a sequence of [endIndex |-> <<>> or <<n>>]
\*   documentId, replies
JObject(e, m, b, d, r) ==
    [t |-> "object", error |-> e, message |-> m, body |-> b, documentId |-> d,
     replies |-> r]

\* A parsed JSON value that is not an object and not null (a number, a
\* string, a boolean, an array): reading any of the members above from it
\* gives undefined and does not throw.
JNonObject(t) ==
    [t |-> t, error |-> <<>>, message |-> <<>>, body |-> <<>>, documentId |-> <<>>,
     replies |-> <<>>]
\* undefined or null: reading a member from it throws a TypeError.
Nullish(v) == v.t \in {"undefined", "null"}

SeqsUpTo(S, n) == UNION {[1..k -> S] : k \in 0..n}

(***************************************************************************)
(* parseInt(string, 10).                                                   *)
(***************************************************************************)
DigitChars == <<"0", "1", "2", "3", "4", "5", "6", "7", "8", "9">>
IsDigit(c) == \E i \in 1..10 : DigitChars[i] = c
DigitVal(c) == (CHOOSE i \in 1..10 : DigitChars[i] = c) - 1

\* StrWhiteSpaceChar, the characters parseInt skips at the start: TAB, LF,
\* VT, FF, CR, SP, NBSP, U+1680 and U+FEFF.  These are all of them up to
\* U+00FF, the range of the characters of a header value; the spaces
\* U+2000..U+200A, U+2028, U+2029, U+202F, U+205F and U+3000 cannot be
\* written in a string of this module.
StrWhiteSpaceChar ==
    {"\t", "\n", "", "\f", "\r", " ", " ", " ", "﻿"}

RECURSIVE TrimStart(_)
TrimStart(s) ==
    IF s # <<>> /\ s[1] \in StrWhiteSpaceChar THEN TrimStart(Tail(s)) ELSE s

RECURSIVE DigitPrefix(_)
DigitPrefix(s) ==
    IF s # <<>> /\ IsDigit(s[1]) THEN <<s[1]>> \o DigitPrefix(Tail(s)) ELSE <<>>

RECURSIVE DigitsValue(_)
DigitsValue(ds) ==
    IF ds = <<>> THEN 0
    ELSE 10 * DigitsValue(SubSeq(ds, 1, Len(ds) - 1)) + DigitVal(ds[Len(ds)])

parseInt(s) ==
    LET t == TrimStart(s)
        signed == t # <<>> /\ t[1] \in {"-", "+"}
        sign == IF t # <<>> /\ t[1] = "-" THEN -1 ELSE 1
        ds == DigitPrefix(IF signed THEN Tail(t) ELSE t)
    IN  IF ds = <<>> THEN NaN ELSE Num(sign * DigitsValue(ds))

(***************************************************************************)
(* Error types (utils/errors).                                             *)
(***************************************************************************)
NoError == [name |-> "", message |-> "", statusCode |-> 0, retryAfter |-> NoNum]

AuthenticationError(msg) ==
    [name |-> "AuthenticationError", message |-> msg, statusCode |-> 401,
     retryAfter |-> NoNum]

RateLimitError(msg, retryAfterSeconds) ==
    [name |-> "RateLimitError", message |-> msg, statusCode |-> 429,
     retryAfter |-> retryAfterSeconds]

GoogleDocsApiError(msg, statusCode) ==
    [name |-> "GoogleDocsApiError", message |-> msg, statusCode |-> statusCode,
     retryAfter |-> NoNum]

\* Errors of the runtime itself: JSON.parse / response.json() on a body that
\* is not JSON, a property read on undefined or null, a failed fetch.
SyntaxError == [name |-> "SyntaxError", message |-> "Unexpected token",
                statusCode |-> 0, retryAfter |-> NoNum]
TypeError == [name |-> "TypeError", message |-> "Cannot read properties",
              statusCode |-> 0, retryAfter |-> NoNum]
FetchError == [name |-> "TypeError", message |-> "fetch failed",
               statusCode |-> 0, retryAfter |-> NoNum]

Return(v) == [threw |-> FALSE, error |-> NoError, value |-> v]
Throw(e) == [threw |-> TRUE, error |-> e, value |-> JUndefined]

(***************************************************************************)
(* Remote responses.                                                       *)
(***************************************************************************)
HdrAlphabet == {"0", "3", "a", "\f", "-"}
NoHeader == [present |-> FALSE, chars |-> <<>>]
Header(s) == [present |-> TRUE, chars |-> s]
HeaderValues == {NoHeader} \cup {Header(s) : s \in SeqsUpTo(HdrAlphabet, MaxHdrLen)}

\* A response body: text that is or is not valid JSON, and its parsed value.
TextBody == [valid |-> FALSE, json |-> JUndefined]
JsonBody(j) == [valid |-> TRUE, json |-> j]

ErrorMessages == {Absent, Str(""), Str("quota exceeded")}
TopMessages == {Absent, Str(""), Str("bad request")}
ErrorEnvelopes ==
    {JObject(e, m, Absent, Absent, <<>>) :
        e \in {<<>>} \cup {<<em>> : em \in ErrorMessages}, m \in TopMessages}
ErrorBodies == {TextBody, JsonBody(JNull), JsonBody(JNonObject("number"))} \cup {JsonBody(j) : j \in ErrorEnvelopes}

EndIndexes == {<<>>, <<0>>, <<1>>, <<50>>}
Blocks == {[endIndex |-> e] : e \in EndIndexes}
DocBodies == {<<>>, << <<>> >>} \cup {<< <<bs>> >> : bs \in SeqsUpTo(Blocks, MaxBlocks)}
Documents == {JObject(Absent, Absent, b, Str("d/1"), <<>>) : b \in DocBodies}
BatchUpdateResponses == {JObject(Absent, Absent, <<>>, Str("d/1"), <<>>)}

Response(status, retryAfter, body) ==
    [status |-> status, retryAfter |-> retryAfter, body |-> body]

(***************************************************************************)
(* The client's HTTP request helper.                                       *)
(***************************************************************************)
API_BASE_URL == "https://docs.googleapis.com/v1"

\* encodeURIComponent over the characters of a document id: "/" is escaped,
\* letters and digits are kept.
encodeURIComponent(s) == [i \in 1..Len(s) |-> IF s[i] = "/" THEN "%2F" ELSE s[i]]

\* An header builder that refuses an absent token only, not an empty one.
getAuthHeadersAbsentOnly(accessToken) ==
    IF accessToken = Absent
    THEN Throw(AuthenticationError(
            "No access token provided. Include X-Google-Access-Token header."))
    ELSE Return([t |-> "headers", Authorization |-> "Bearer " \o accessToken[1],
                 ContentType |-> "application/json"])

\* getAuthHeaders: throws without an access token, else the bearer header.
getAuthHeaders(accessToken) ==
    IF ~Truthy(accessToken)
    THEN Throw(AuthenticationError(
            "No access token provided. Include X-Google-Access-Token header."))
    ELSE Return([t |-> "headers", Authorization |-> "Bearer " \o accessToken[1],
                 ContentType |-> "application/json"])

\* The fetch call the request helper makes: url, method, headers and body.
HttpRequest(method, endpoint, body, accessToken) ==
    [url |-> <<API_BASE_URL>> \o endpoint, method |-> method,
     headers |-> getAuthHeaders(accessToken).value, body |-> body]

\* A response.ok that accepts status 200 only.
okOnly200(status) == status = 200

\* response.ok
ok(status) == status >= 200 /\ status <= 299

\* A retry-after that ignores the header.
RetryAfterIgnoringHeader(retryAfter) == Num(60)

\* retryAfter ? parseInt(retryAfter, 10) : 60
RetryAfterSeconds(retryAfter) ==
    IF retryAfter.present /\ retryAfter.chars # <<>>
    THEN parseInt(retryAfter.chars)
    ELSE Num(60)

\* A message that prefers the top-level message member to error.message.
ErrorMessageTopLevelFirst(status, body) ==
    LET default == "API error: " \o ToString(status)
        errorJson == body.json
        inner == IF errorJson.error = <<>> THEN Absent ELSE errorJson.error[1]
    IN  IF ~body.valid THEN default
        ELSE IF errorJson.t # "object" THEN default
        ELSE IF Truthy(errorJson.message) THEN errorJson.message[1]
        ELSE IF Truthy(inner) THEN inner[1]
        ELSE default

\* The message of the GoogleDocsApiError for a non-ok response:
\* errorJson.error?.message || errorJson.message || `API error: ${status}`,
\* and the default when JSON.parse or the member read throws.
ErrorMessage(status, body) ==
    LET default == "API error: " \o ToString(status)
        errorJson == body.json
        inner == IF errorJson.error = <<>> THEN Absent ELSE errorJson.error[1]
    IN  IF ~body.valid THEN default
        ELSE IF errorJson.t # "object" THEN default
        ELSE IF Truthy(inner) THEN inner[1]
        ELSE IF Truthy(errorJson.message) THEN errorJson.message[1]
        ELSE default

\* response.json()
ResponseJson(body) == IF body.valid THEN Return(body.json) ELSE Throw(SyntaxError)

\* A request helper whose authentication branch tests status 401 only.
requestAuthOn401Only(response) ==
    IF response.status = 429
    THEN Throw(RateLimitError("Rate limit exceeded",
                              RetryAfterSeconds(response.retryAfter)))
    ELSE IF response.status = 401
    THEN Throw(AuthenticationError(
            "Authentication failed. Check your OAuth access token."))
    ELSE IF ~ok(response.status)
    THEN Throw(GoogleDocsApiError(ErrorMessage(response.status, response.body),
                                  response.status))
    ELSE IF response.status = 204
    THEN Return(JUndefined)
    ELSE ResponseJson(response.body)

\* What request<T>() does with the response fetch resolved to.
request(response) ==
    IF response.status = 429
    THEN Throw(RateLimitError("Rate limit exceeded",
                              RetryAfterSeconds(response.retryAfter)))
    ELSE IF response.status = 401 \/ response.status = 403
    THEN Throw(AuthenticationError(
            "Authentication failed. Check your OAuth access token."))
    ELSE IF ~ok(response.status)
    THEN Throw(GoogleDocsApiError(ErrorMessage(response.status, response.body),
                                  response.status))
    ELSE IF response.status = 204
    THEN Return(JUndefined)
    ELSE ResponseJson(response.body)

(***************************************************************************)
(* Client methods: the HTTP request each one sends first.                  *)
(***************************************************************************)
\* createDocument(title): POST /documents
createDocument(title, accessToken) ==
    HttpRequest("POST", <<"/documents">>, [title |-> title], accessToken)

\* getDocument(documentId): GET /documents/{id}
getDocument(documentId, accessToken) ==
    HttpRequest("GET", <<"/documents/">> \o encodeURIComponent(documentId),
                [none |-> TRUE], accessToken)

\* A batchUpdate that sends the operations in reverse order.
batchUpdateReversed(documentId, requests, accessToken) ==
    HttpRequest("POST",
                <<"/documents/">> \o encodeURIComponent(documentId) \o <<":batchUpdate">>,
                [requests |-> [i \in 1..Len(requests) |-> requests[Len(requests) + 1 - i]]],
                accessToken)

\* A batchUpdate that posts to the document itself.
batchUpdateToDocument(documentId, requests, accessToken) ==
    HttpRequest("POST", <<"/documents/">> \o encodeURIComponent(documentId),
                [requests |-> requests], accessToken)

\* batchUpdate(documentId, requests): POST /documents/{id}:batchUpdate
batchUpdate(documentId, requests, accessToken) ==
    HttpRequest("POST",
                <<"/documents/">> \o encodeURIComponent(documentId) \o <<":batchUpdate">>,
                [requests |-> requests], accessToken)

Max(a, b) == IF a >= b THEN a ELSE b

\* doc.body?.content?.slice(-1)[0]?.endIndex || 1
LastEndIndex(doc) ==
    LET content == IF doc.body = <<>> THEN <<>> ELSE doc.body[1]
        blocks == IF content = <<>> THEN <<>> ELSE content[1]
        last == IF blocks = <<>> THEN <<>> ELSE blocks[Len(blocks)].endIndex
    IN  IF last = <<>> \/ last[1] = 0 THEN 1 ELSE last[1]

\* An append index that is the end index itself.
AppendIndexAtEnd(doc) == Max(1, LastEndIndex(doc))

\* The index appendText inserts at, from the fetched document.
AppendIndex(doc) == Max(1, LastEndIndex(doc) - 1)

(***************************************************************************)
(* Tool arguments and the declared input schemas (zod).                    *)
(***************************************************************************)
JNum(n) == [t |-> "number", n |-> n]
JStr(s) == [t |-> "string", s |-> s]
\* A string kept as its characters (document ids, which are URL-encoded).
JChars(cs) == [t |-> "string", s |-> cs]
JBool(b) == [t |-> "boolean", b |-> b]
JRec(obj) == [t |-> "object", obj |-> obj]
JArr(items) == [t |-> "array", items |-> items]
JTruthy(v) ==
    CASE v.t = "undefined" -> FALSE
      [] v.t = "null" -> FALSE
      [] v.t = "string" -> v.s # ""
      [] v.t = "number" -> v.n # 0
      [] v.t = "boolean" -> v.b
      [] OTHER -> TRUE

zScalar(type) ==
    [type |-> type, hasMin |-> FALSE, min |-> 0, excl |-> FALSE, url |-> FALSE,
     values |-> {}, opt |-> FALSE, hasDef |-> FALSE, def |-> JUndefined]
zString == zScalar("string")
zUrl == [zScalar("string") EXCEPT !.url = TRUE]
zBoolean == zScalar("boolean")
zRecord == zScalar("record")
zIntMin(k) == [zScalar("number") EXCEPT !.hasMin = TRUE, !.min = k]
zNumberMin(k) == [zScalar("number") EXCEPT !.hasMin = TRUE, !.min = k]
zPositive == [zScalar("number") EXCEPT !.hasMin = TRUE, !.min = 0, !.excl = TRUE]
zEnum(values) == [zScalar("enum") EXCEPT !.values = values]
zArray(elem) == [zScalar("array") EXCEPT !.values = {elem.type}, !.hasMin = elem.hasMin,
                                         !.min = elem.min]
optional(spec) == [spec EXCEPT !.opt = TRUE]
default(spec, v) == [spec EXCEPT !.opt = TRUE, !.hasDef = TRUE, !.def = v]

Urls == {"https://example.com/i.png"}

Alignments == {"START", "CENTER", "END", "JUSTIFIED"}
HeadingTypes == {"NORMAL_TEXT", "TITLE", "SUBTITLE", "HEADING_1", "HEADING_2",
                 "HEADING_3", "HEADING_4", "HEADING_5", "HEADING_6"}
BulletPresets ==
    {"BULLET_DISC_CIRCLE_SQUARE", "BULLET_DIAMONDX_ARROW3D_SQUARE", "BULLET_CHECKBOX",
     "BULLET_ARROW_DIAMOND_DISC", "BULLET_STAR_CIRCLE_SQUARE",
     "BULLET_ARROW3D_CIRCLE_SQUARE", "BULLET_LEFTTRIANGLE_DIAMOND_DISC",
     "NUMBERED_DECIMAL_ALPHA_ROMAN", "NUMBERED_DECIMAL_ALPHA_ROMAN_PARENS",
     "NUMBERED_DECIMAL_NESTED", "NUMBERED_UPPERALPHA_ALPHA_ROMAN",
     "NUMBERED_UPPERROMAN_UPPERALPHA_DECIMAL", "NUMBERED_ZERODECIMAL_ALPHA_ROMAN"}

\* Whether one argument value passes its field's schema.
AcceptsScalar(type, spec, v) ==
    CASE type = "string" -> v.t = "string" /\ (spec.url => v.s \in Urls)
      [] type = "number" ->
            /\ v.t = "number"
            /\ spec.hasMin => IF spec.excl THEN v.n > spec.min ELSE v.n >= spec.min
      [] type = "boolean" -> v.t = "boolean"
      [] type = "enum" -> v.t = "string" /\ v.s \in spec.values
      [] type = "record" -> v.t = "object"
      [] OTHER -> FALSE

\* A validation that checks types and leaves numeric bounds unchecked.
AcceptsIgnoringBounds(spec, v) ==
    IF v.t = "undefined" THEN spec.opt
    ELSE IF spec.type = "array" THEN v.t = "array"
    ELSE IF spec.type = "number" THEN v.t = "number"
    ELSE AcceptsScalar(spec.type, spec, v)

Accepts(spec, v) ==
    IF v.t = "undefined" THEN spec.opt
    ELSE IF spec.type = "array"
    THEN /\ v.t = "array"
         /\ \A i \in 1..Len(v.items) :
                \E et \in spec.values : AcceptsScalar(et, spec, v.items[i])
    ELSE AcceptsScalar(spec.type, spec, v)

\* The value the handler receives for a field: the default fills in undefined.
Parsed(spec, v) == IF v.t = "undefined" /\ spec.hasDef THEN spec.def ELSE v

(***************************************************************************)
(* The input schema each tool declares, by registration function.          *)
(***************************************************************************)
DocumentToolSchemas ==
    [googledocs_create |->
        [title |-> zString],
     googledocs_get |->
        [documentId |-> zString],
     googledocs_batch_update |->
        [documentId |-> zString,
         requests |-> zArray(zRecord)]]

ContentToolSchemas ==
    [googledocs_insert_text |->
        [documentId |-> zString,
         text |-> zString,
         index |-> zIntMin(1)],
     googledocs_delete_content |->
        [documentId |-> zString,
         startIndex |-> zIntMin(1),
         endIndex |-> zIntMin(1)],
     googledocs_replace_text |->
        [documentId |-> zString,
         findText |-> zString,
         replaceText |-> zString,
         matchCase |-> default(zBoolean, JBool(FALSE))],
     googledocs_append_text |->
        [documentId |-> zString,
         text |-> zString],
     googledocs_insert_page_break |->
        [documentId |-> zString,
         index |-> zIntMin(1)],
     googledocs_insert_section_break |->
        [documentId |-> zString,
         index |-> zIntMin(1),
         sectionType |-> default(zEnum({"CONTINUOUS", "NEXT_PAGE"}), JStr("NEXT_PAGE"))]]

FormattingToolSchemas ==
    [googledocs_format_text |->
        [documentId |-> zString,
         startIndex |-> zIntMin(1),
         endIndex |-> zIntMin(1),
         bold |-> optional(zBoolean),
         italic |-> optional(zBoolean),
         underline |-> optional(zBoolean),
         strikethrough |-> optional(zBoolean),
         fontSize |-> optional(zPositive),
         fontFamily |-> optional(zString)],
     googledocs_update_text_style |->
        [documentId |-> zString,
         startIndex |-> zIntMin(1),
         endIndex |-> zIntMin(1),
         textStyle |-> zRecord,
         fields |-> zString],
     googledocs_format_paragraph |->
        [documentId |-> zString,
         startIndex |-> zIntMin(1),
         endIndex |-> zIntMin(1),
         alignment |-> optional(zEnum(Alignments)),
         headingType |-> optional(zEnum(HeadingTypes)),
         lineSpacing |-> optional(zPositive),
         spaceAbove |-> optional(zNumberMin(0)),
         spaceBelow |-> optional(zNumberMin(0))],
     googledocs_update_paragraph_style |->
        [documentId |-> zString,
         startIndex |-> zIntMin(1),
         endIndex |-> zIntMin(1),
         paragraphStyle |-> zRecord,
         fields |-> zString],
     googledocs_update_document_style |->
        [documentId |-> zString,
         documentStyle |-> zRecord,
         fields |-> zString],
     googledocs_update_section_style |->
        [documentId |-> zString,
         startIndex |-> zIntMin(1),
         endIndex |-> zIntMin(1),
         sectionStyle |-> zRecord,
         fields |-> zString]]

TableToolSchemas ==
    [googledocs_insert_table |->
        [documentId |-> zString,
         rows |-> zIntMin(1),
         columns |-> zIntMin(1),
         index |-> zIntMin(1)],
     googledocs_insert_table_row |->
        [documentId |-> zString,
         tableStartIndex |-> zIntMin(1),
         rowIndex |-> zIntMin(0),
         columnIndex |-> default(zIntMin(0), JNum(0)),
         insertBelow |-> default(zBoolean, JBool(TRUE))],
     googledocs_insert_table_column |->
        [documentId |-> zString,
         tableStartIndex |-> zIntMin(1),
         rowIndex |-> default(zIntMin(0), JNum(0)),
         columnIndex |-> zIntMin(0),
         insertRight |-> default(zBoolean, JBool(TRUE))],
     googledocs_delete_table_row |->
        [documentId |-> zString,
         tableStartIndex |-> zIntMin(1),
         rowIndex |-> zIntMin(0),
         columnIndex |-> default(zIntMin(0), JNum(0))],
     googledocs_delete_table_column |->
        [documentId |-> zString,
         tableStartIndex |-> zIntMin(1),
         rowIndex |-> default(zIntMin(0), JNum(0)),
         columnIndex |-> zIntMin(0)],
     googledocs_merge_table_cells |->
        [documentId |-> zString,
         tableStartIndex |-> zIntMin(1),
         rowIndex |-> zIntMin(0),
         columnIndex |-> zIntMin(0),
         rowSpan |-> zIntMin(1),
         columnSpan |-> zIntMin(1)],
     googledocs_unmerge_table_cells |->
        [documentId |-> zString,
         tableStartIndex |-> zIntMin(1),
         rowIndex |-> zIntMin(0),
         columnIndex |-> zIntMin(0),
         rowSpan |-> zIntMin(1),
         columnSpan |-> zIntMin(1)],
     googledocs_update_table_cell_style |->
        [documentId |-> zString,
         tableStartIndex |-> zIntMin(1),
         rowIndex |-> zIntMin(0),
         columnIndex |-> zIntMin(0),
         rowSpan |-> default(zIntMin(1), JNum(1)),
         columnSpan |-> default(zIntMin(1), JNum(1)),
         tableCellStyle |-> zRecord,
         fields |-> zString],
     googledocs_update_table_row_style |->
        [documentId |-> zString,
         tableStartIndex |-> zIntMin(1),
         rowIndices |-> zArray(zIntMin(0)),
         tableRowStyle |-> zRecord,
         fields |-> zString],
     googledocs_update_table_column_properties |->
        [documentId |-> zString,
         tableStartIndex |-> zIntMin(1),
         columnIndices |-> zArray(zIntMin(0)),
         tableColumnProperties |-> zRecord,
         fields |-> zString],
     googledocs_pin_table_header_rows |->
        [documentId |-> zString,
         tableStartIndex |-> zIntMin(1),
         pinnedHeaderRowsCount |-> zIntMin(0)]]

ImageToolSchemas ==
    [googledocs_insert_image |->
        [documentId |-> zString,
         uri |-> zUrl,
         index |-> zIntMin(1),
         width |-> optional(zPositive),
         height |-> optional(zPositive)],
     googledocs_replace_image |->
        [documentId |-> zString,
         imageObjectId |-> zString,
         uri |-> zUrl],
     googledocs_delete_positioned_object |->
        [documentId |-> zString,
         objectId |-> zString]]

ListToolSchemas ==
    [googledocs_create_bullets |->
        [documentId |-> zString,
         startIndex |-> zIntMin(1),
         endIndex |-> zIntMin(1),
         bulletPreset |-> optional(zEnum(BulletPresets))],
     googledocs_delete_bullets |->
        [documentId |-> zString,
         startIndex |-> zIntMin(1),
         endIndex |-> zIntMin(1)]]

NamedRangeToolSchemas ==
    [googledocs_create_named_range |->
        [documentId |-> zString,
         name |-> zString,
         startIndex |-> zIntMin(1),
         endIndex |-> zIntMin(1)],
     googledocs_delete_named_range |->
        [documentId |-> zString,
         namedRangeId |-> optional(zString),
         name |-> optional(zString)],
     googledocs_replace_named_range_content |->
        [documentId |-> zString,
         text |-> zString,
         namedRangeId |-> optional(zString),
         namedRangeName |-> optional(zString)]]

HeaderFooterToolSchemas ==
    [googledocs_create_header |->
        [documentId |-> zString,
         type |-> default(zEnum({"DEFAULT"}), JStr("DEFAULT")),
         sectionBreakIndex |-> optional(zIntMin(1))],
     googledocs_create_footer |->
        [documentId |-> zString,
         type |-> default(zEnum({"DEFAULT"}), JStr("DEFAULT")),
         sectionBreakIndex |-> optional(zIntMin(1))],
     googledocs_delete_header |->
        [documentId |-> zString,
         headerId |-> zString],
     googledocs_delete_footer |->
        [documentId |-> zString,
         footerId |-> zString],
     googledocs_create_footnote |->
        [documentId |-> zString,
         index |-> zIntMin(1)]]

\* The tool registered in createStatelessServer itself.
ServerToolSchemas == [googledocs_test_connection |-> <<>>]

(***************************************************************************)
(* Tool handlers: the client method each one calls, the message it passes  *)
(* to formatSuccess (the template, with the values it interpolates left as *)
(* placeholders), and whether it reads a member of the result before that. *)
(***************************************************************************)
\* The backquote of a template literal, for a message whose nested templates
\* cannot be written in one string.
Backtick == SubSeq("`'", 1, 1)
H(method, message, reads) == [method |-> method, message |-> message, reads |-> reads]

DocumentToolHandlers ==
    [googledocs_create |->
        H("createDocument", "Document created: ${document.documentId}", TRUE),
     googledocs_get |-> H("getDocument", "", FALSE),
     googledocs_batch_update |-> H("batchUpdate", "Batch update completed", FALSE)]

ContentToolHandlers ==
    [googledocs_insert_text |-> H("insertText", "Text inserted at index ${index}", FALSE),
     googledocs_delete_content |->
        H("deleteContent", "Content deleted from ${startIndex} to ${endIndex}", FALSE),
     googledocs_replace_text |->
        H("replaceAllText", "Replaced ${occurrences} occurrence(s) of \"${findText}\"", TRUE),
     googledocs_append_text |-> H("appendText", "Text appended to document", FALSE),
     googledocs_insert_page_break |->
        H("insertPageBreak", "Page break inserted at index ${index}", FALSE),
     googledocs_insert_section_break |->
        H("insertSectionBreak", "Section break (${sectionType}) inserted at index ${index}",
          FALSE)]

FormattingToolHandlers ==
    [googledocs_format_text |->
        H("updateTextStyle", "Text formatted from ${startIndex} to ${endIndex}", FALSE),
     googledocs_update_text_style |->
        H("updateTextStyle", "Text style updated from ${startIndex} to ${endIndex}", FALSE),
     googledocs_format_paragraph |->
        H("updateParagraphStyle", "Paragraph formatted from ${startIndex} to ${endIndex}",
          FALSE),
     googledocs_update_paragraph_style |->
        H("updateParagraphStyle", "Paragraph style updated from ${startIndex} to ${endIndex}",
          FALSE),
     googledocs_update_document_style |->
        H("updateDocumentStyle", "Document style updated", FALSE),
     googledocs_update_section_style |->
        H("updateSectionStyle", "Section style updated from ${startIndex} to ${endIndex}",
          FALSE)]

TableToolHandlers ==
    [googledocs_insert_table |->
        H("insertTable", "Table (${rows}x${columns}) inserted at index ${index}", FALSE),
     googledocs_insert_table_row |->
        H("insertTableRow", "Row inserted ${insertBelow ? 'below' : 'above'} row ${rowIndex}",
          FALSE),
     googledocs_insert_table_column |->
        H("insertTableColumn",
          "Column inserted ${insertRight ? 'right of' : 'left of'} column ${columnIndex}",
          FALSE),
     googledocs_delete_table_row |-> H("deleteTableRow", "Row ${rowIndex} deleted", FALSE),
     googledocs_delete_table_column |->
        H("deleteTableColumn", "Column ${columnIndex} deleted", FALSE),
     googledocs_merge_table_cells |->
        H("mergeTableCells",
          "Merged ${rowSpan}x${columnSpan} cells starting at (${rowIndex}, ${columnIndex})",
          FALSE),
     googledocs_unmerge_table_cells |->
        H("unmergeTableCells", "Unmerged cells at (${rowIndex}, ${columnIndex})", FALSE),
     googledocs_update_table_cell_style |->
        H("updateTableCellStyle", "Table cell style updated", FALSE),
     googledocs_update_table_row_style |->
        H("updateTableRowStyle", "Table row style updated for rows: ${rowIndices.join(', ')}",
          FALSE),
     googledocs_update_table_column_properties |->
        H("updateTableColumnProperties",
          "Table column properties updated for columns: ${columnIndices.join(', ')}", FALSE),
     googledocs_pin_table_header_rows |->
        H("pinTableHeaderRows", "Pinned ${pinnedHeaderRowsCount} header row(s)", FALSE)]

ImageToolHandlers ==
    [googledocs_insert_image |->
        H("insertInlineImage",
          "Image inserted at index ${index}${objectId ? ` (ID: ${objectId})` : ''}", TRUE),
     googledocs_replace_image |-> H("replaceImage", "Image ${imageObjectId} replaced", FALSE),
     googledocs_delete_positioned_object |->
        H("deletePositionedObject", "Positioned object ${objectId} deleted", FALSE)]

ListToolHandlers ==
    [googledocs_create_bullets |->
        H("createParagraphBullets", "Bullets created from ${startIndex} to ${endIndex}",
          FALSE),
     googledocs_delete_bullets |->
        H("deleteParagraphBullets", "Bullets removed from ${startIndex} to ${endIndex}",
          FALSE)]

NamedRangeToolHandlers ==
    [googledocs_create_named_range |->
        H("createNamedRange",
          "Named range \"${name}\" created${namedRangeId ? ` (ID: ${namedRangeId})` : ''}",
          TRUE),
     googledocs_delete_named_range |->
        H("deleteNamedRange",
          "Named range ${namedRangeId ? " \o Backtick \o "ID: ${namedRangeId}" \o Backtick
              \o " : " \o Backtick \o "\"${name}\"" \o Backtick \o "} deleted",
          FALSE),
     googledocs_replace_named_range_content |->
        H("replaceNamedRangeContent",
          "Named range content replaced with \"${text.slice(0, 50)}${text.length > 50 ? '...' : ''}\"",
          FALSE)]

HeaderFooterToolHandlers ==
    [googledocs_create_header |->
        H("createHeader", "Header created${headerId ? ` (ID: ${headerId})` : ''}", TRUE),
     googledocs_create_footer |->
        H("createFooter", "Footer created${footerId ? ` (ID: ${footerId})` : ''}", TRUE),
     googledocs_delete_header |-> H("deleteHeader", "Header ${headerId} deleted", FALSE),
     googledocs_delete_footer |-> H("deleteFooter", "Footer ${footerId} deleted", FALSE),
     googledocs_create_footnote |->
        H("createFootnote",
          "Footnote created at index ${index}${footnoteId ? ` (ID: ${footnoteId})` : ''}",
          TRUE)]

ServerToolHandlers == [googledocs_test_connection |-> H("testConnection", "", FALSE)]

Categories ==
    <<[schemas |-> DocumentToolSchemas, handlers |-> DocumentToolHandlers],
      [schemas |-> ContentToolSchemas, handlers |-> ContentToolHandlers],
      [schemas |-> FormattingToolSchemas, handlers |-> FormattingToolHandlers],
      [schemas |-> TableToolSchemas, handlers |-> TableToolHandlers],
      [schemas |-> ImageToolSchemas, handlers |-> ImageToolHandlers],
      [schemas |-> ListToolSchemas, handlers |-> ListToolHandlers],
      [schemas |-> NamedRangeToolSchemas, handlers |-> NamedRangeToolHandlers],
      [schemas |-> HeaderFooterToolSchemas, handlers |-> HeaderFooterToolHandlers],
      [schemas |-> ServerToolSchemas, handlers |-> ServerToolHandlers]>>

\* The tools createStatelessServer registers, by name.
Tools == UNION {DOMAIN Categories[i].schemas : i \in 1..Len(Categories)}
CategoryOf(tool) == CHOOSE i \in 1..Len(Categories) : tool \in DOMAIN Categories[i].schemas
ToolSchema(tool) == Categories[CategoryOf(tool)].schemas[tool]
ToolHandler(tool) == Categories[CategoryOf(tool)].handlers[tool]

\* Schema validation of a whole argument object, and the parsed arguments.
SchemaAccepts(tool, args) ==
    \A f \in DOMAIN ToolSchema(tool) : Accepts(ToolSchema(tool)[f], args[f])
ParseArgs(tool, args) ==
    [f \in DOMAIN ToolSchema(tool) |-> Parsed(ToolSchema(tool)[f], args[f])]


(***************************************************************************)
(* Client methods: the single Operation each one builds from its           *)
(* parameters m (the object literal passed to batchUpdate).                *)
(***************************************************************************)
Range(m) == [startIndex |-> m.startIndex, endIndex |-> m.endIndex]
TableCellLocation(m) ==
    [tableStartLocation |-> [index |-> m.tableStartIndex], rowIndex |-> m.rowIndex,
     columnIndex |-> m.columnIndex]
TableRange(m) ==
    [tableCellLocation |-> TableCellLocation(m), rowSpan |-> m.rowSpan,
     columnSpan |-> m.columnSpan]

\* An object size built as soon as one dimension is given.
ObjectSizeEitherDimension(width, height) ==
    IF JTruthy(width) \/ JTruthy(height)
    THEN [width |-> [magnitude |-> width, unit |-> "PT"],
          height |-> [magnitude |-> height, unit |-> "PT"]]
    ELSE JUndefined

\* width && height ? { width: {magnitude, unit: 'PT'}, height: {...} } : undefined
ObjectSize(width, height) ==
    IF JTruthy(width) /\ JTruthy(height)
    THEN [width |-> [magnitude |-> width, unit |-> "PT"],
          height |-> [magnitude |-> height, unit |-> "PT"]]
    ELSE JUndefined

\* sectionBreakIndex ? { index: sectionBreakIndex } : undefined
SectionBreakLocation(sectionBreakIndex) ==
    IF JTruthy(sectionBreakIndex) THEN [index |-> sectionBreakIndex] ELSE JUndefined

TextOperation(method, m) ==
    CASE method = "insertText" ->
            [insertText |-> [text |-> m.text, location |-> [index |-> m.index]]]
      [] method = "deleteContent" -> [deleteContentRange |-> [range |-> Range(m)]]
      [] method = "replaceAllText" ->
            [replaceAllText |->
                [containsText |-> [text |-> m.findText, matchCase |-> m.matchCase],
                 replaceText |-> m.replaceText]]
      [] method = "updateTextStyle" ->
            [updateTextStyle |->
                [range |-> Range(m), textStyle |-> m.textStyle, fields |-> m.fields]]
      [] method = "updateParagraphStyle" ->
            [updateParagraphStyle |->
                [range |-> Range(m), paragraphStyle |-> m.paragraphStyle,
                 fields |-> m.fields]]
      [] method = "createParagraphBullets" ->
            [createParagraphBullets |->
                [range |-> Range(m), bulletPreset |-> m.bulletPreset]]
      [] method = "deleteParagraphBullets" ->
            [deleteParagraphBullets |-> [range |-> Range(m)]]
      [] method = "createNamedRange" ->
            [createNamedRange |-> [name |-> m.name, range |-> Range(m)]]
      [] method = "deleteNamedRange" ->
            [deleteNamedRange |-> [namedRangeId |-> m.namedRangeId, name |-> m.name]]
      [] method = "replaceNamedRangeContent" ->
            [replaceNamedRangeContent |->
                [namedRangeId |-> m.namedRangeId, namedRangeName |-> m.namedRangeName,
                 text |-> m.text]]

TableOperation(method, m) ==
    CASE method = "insertTable" ->
            [insertTable |->
                [rows |-> m.rows, columns |-> m.columns, location |-> [index |-> m.index]]]
      [] method = "insertTableRow" ->
            [insertTableRow |->
                [tableCellLocation |-> TableCellLocation(m), insertBelow |-> m.insertBelow]]
      [] method = "insertTableColumn" ->
            [insertTableColumn |->
                [tableCellLocation |-> TableCellLocation(m), insertRight |-> m.insertRight]]
      [] method = "deleteTableRow" ->
            [deleteTableRow |-> [tableCellLocation |-> TableCellLocation(m)]]
      [] method = "deleteTableColumn" ->
            [deleteTableColumn |-> [tableCellLocation |-> TableCellLocation(m)]]
      [] method = "mergeTableCells" -> [mergeTableCells |-> [tableRange |-> TableRange(m)]]
      [] method = "unmergeTableCells" ->
            [unmergeTableCells |-> [tableRange |-> TableRange(m)]]
      [] method = "updateTableCellStyle" ->
            [updateTableCellStyle |->
                [tableRange |-> TableRange(m), tableCellStyle |-> m.tableCellStyle,
                 fields |-> m.fields]]
      [] method = "updateTableRowStyle" ->
            [updateTableRowStyle |->
                [tableStartLocation |-> [index |-> m.tableStartIndex],
                 rowIndices |-> m.rowIndices, tableRowStyle |-> m.tableRowStyle,
                 fields |-> m.fields]]
      [] method = "updateTableColumnProperties" ->
            [updateTableColumnProperties |->
                [tableStartLocation |-> [index |-> m.tableStartIndex],
                 columnIndices |-> m.columnIndices,
                 tableColumnProperties |-> m.tableColumnProperties, fields |-> m.fields]]
      [] method = "pinTableHeaderRows" ->
            [pinTableHeaderRows |->
                [tableStartLocation |-> [index |-> m.tableStartIndex],
                 pinnedHeaderRowsCount |-> m.pinnedHeaderRowsCount]]

LayoutOperation(method, m) ==
    CASE method = "insertInlineImage" ->
            [insertInlineImage |->
                [uri |-> m.uri, location |-> [index |-> m.index],
                 objectSize |-> ObjectSize(m.width, m.height)]]
      [] method = "replaceImage" ->
            [replaceImage |-> [imageObjectId |-> m.imageObjectId, uri |-> m.uri]]
      [] method = "deletePositionedObject" ->
            [deletePositionedObject |-> [objectId |-> m.objectId]]
      [] method = "insertPageBreak" ->
            [insertPageBreak |-> [location |-> [index |-> m.index]]]
      [] method = "insertSectionBreak" ->
            [insertSectionBreak |->
                [location |-> [index |-> m.index], sectionType |-> m.sectionType]]
      [] method = "createHeader" ->
            [createHeader |->
                [type |-> m.type,
                 sectionBreakLocation |-> SectionBreakLocation(m.sectionBreakIndex)]]
      [] method = "createFooter" ->
            [createFooter |->
                [type |-> m.type,
                 sectionBreakLocation |-> SectionBreakLocation(m.sectionBreakIndex)]]
      [] method = "deleteHeader" -> [deleteHeader |-> [headerId |-> m.headerId]]
      [] method = "deleteFooter" -> [deleteFooter |-> [footerId |-> m.footerId]]
      [] method = "createFootnote" -> [createFootnote |-> [location |-> [index |-> m.index]]]
      [] method = "updateDocumentStyle" ->
            [updateDocumentStyle |->
                [documentStyle |-> m.documentStyle, fields |-> m.fields]]
      [] method = "updateSectionStyle" ->
            [updateSectionStyle |->
                [range |-> Range(m), sectionStyle |-> m.sectionStyle, fields |-> m.fields]]

TextMethods ==
    {"insertText", "deleteContent", "replaceAllText", "updateTextStyle",
     "updateParagraphStyle", "createParagraphBullets", "deleteParagraphBullets",
     "createNamedRange", "deleteNamedRange", "replaceNamedRangeContent"}
TableMethods ==
    {"insertTable", "insertTableRow", "insertTableColumn", "deleteTableRow",
     "deleteTableColumn", "mergeTableCells", "unmergeTableCells", "updateTableCellStyle",
     "updateTableRowStyle", "updateTableColumnProperties", "pinTableHeaderRows"}

\* An operation builder whose replaceNamedRangeContent operation also
\* carries the deletion of the range.
MethodOperationTwoVariants(method, m) ==
    LET op == IF method \in TextMethods THEN TextOperation(method, m)
              ELSE IF method \in TableMethods THEN TableOperation(method, m)
              ELSE LayoutOperation(method, m)
    IN  IF method = "replaceNamedRangeContent"
        THEN op @@ [deleteNamedRange |-> [name |-> JUndefined]]
        ELSE op

MethodOperation(method, m) ==
    IF method \in TextMethods THEN TextOperation(method, m)
    ELSE IF method \in TableMethods THEN TableOperation(method, m)
    ELSE LayoutOperation(method, m)

(***************************************************************************)
(* Result envelopes (utils/formatters) and the handlers' own results.      *)
(***************************************************************************)
EmptyObject == [t |-> "object"]
NoResult == [kind |-> "none", isError |-> FALSE, message |-> "", data |-> JUndefined]

formatSuccess(message, data) ==
    [kind |-> "success", isError |-> FALSE, message |-> message, data |-> data]
formatResponse(data) ==
    [kind |-> "success", isError |-> FALSE, message |-> "", data |-> data]
formatError(error) ==
    [kind |-> "error", isError |-> TRUE, message |-> error.message, data |-> JUndefined]

\* The rejection the MCP server answers with when the arguments fail the
\* schema the tool was registered with; the handler is not run.
SchemaRejection ==
    [kind |-> "rejected", isError |-> TRUE, message |-> "Invalid arguments",
     data |-> JUndefined]

\* The { content: [...], isError: true } literal of the named-range handlers.
LocalError(message) ==
    [kind |-> "error", isError |-> TRUE, message |-> message, data |-> JUndefined]

(***************************************************************************)
(* Handler bodies up to the client call.                                   *)
(***************************************************************************)
RECURSIVE JoinComma(_)
JoinComma(fields) ==
    IF fields = <<>> THEN ""
    ELSE IF Len(fields) = 1 THEN fields[1]
    ELSE fields[1] \o "," \o JoinComma(Tail(fields))

Local(envelope) == [kind |-> "local", result |-> envelope, method |-> "", margs |-> <<>>]
ClientCall(method, margs) ==
    [kind |-> "call", result |-> NoResult, method |-> method, margs |-> margs]

Magnitude(v) == [magnitude |-> v, unit |-> "PT"]

\* googledocs_format_text: textStyle and fields from the arguments given.
FormatTextStyle(a) ==
    LET props == <<[arg |-> "bold", prop |-> "bold", given |-> a.bold.t # "undefined",
                    value |-> a.bold],
                   [arg |-> "italic", prop |-> "italic",
                    given |-> a.italic.t # "undefined", value |-> a.italic],
                   [arg |-> "underline", prop |-> "underline",
                    given |-> a.underline.t # "undefined", value |-> a.underline],
                   [arg |-> "strikethrough", prop |-> "strikethrough",
                    given |-> a.strikethrough.t # "undefined", value |-> a.strikethrough],
                   [arg |-> "fontSize", prop |-> "fontSize",
                    given |-> a.fontSize.t # "undefined", value |-> Magnitude(a.fontSize)],
                   [arg |-> "fontFamily", prop |-> "weightedFontFamily",
                    given |-> a.fontFamily.t # "undefined",
                    value |-> [fontFamily |-> a.fontFamily]]>>
        set == SelectSeq(props, LAMBDA e : e.given)
    IN  [style |-> [p \in {set[i].prop : i \in 1..Len(set)} |->
                        set[CHOOSE i \in 1..Len(set) : set[i].prop = p].value],
         fields |-> [i \in 1..Len(set) |-> set[i].prop]]

\* A paragraph style that tests the two spacings for truthiness.
FormatParagraphStyleDroppingZero(a) ==
    LET props == <<[arg |-> "alignment", prop |-> "alignment",
                    given |-> JTruthy(a.alignment), value |-> a.alignment],
                   [arg |-> "headingType", prop |-> "namedStyleType",
                    given |-> JTruthy(a.headingType), value |-> a.headingType],
                   [arg |-> "lineSpacing", prop |-> "lineSpacing",
                    given |-> a.lineSpacing.t # "undefined", value |-> a.lineSpacing],
                   [arg |-> "spaceAbove", prop |-> "spaceAbove",
                    given |-> JTruthy(a.spaceAbove),
                    value |-> Magnitude(a.spaceAbove)],
                   [arg |-> "spaceBelow", prop |-> "spaceBelow",
                    given |-> JTruthy(a.spaceBelow),
                    value |-> Magnitude(a.spaceBelow)]>>
        set == SelectSeq(props, LAMBDA e : e.given)
    IN  [style |-> [p \in {set[i].prop : i \in 1..Len(set)} |->
                        set[CHOOSE i \in 1..Len(set) : set[i].prop = p].value],
         fields |-> [i \in 1..Len(set) |-> set[i].prop]]

\* googledocs_format_paragraph: paragraphStyle and fields from the arguments.
FormatParagraphStyle(a) ==
    LET props == <<[arg |-> "alignment", prop |-> "alignment",
                    given |-> JTruthy(a.alignment), value |-> a.alignment],
                   [arg |-> "headingType", prop |-> "namedStyleType",
                    given |-> JTruthy(a.headingType), value |-> a.headingType],
                   [arg |-> "lineSpacing", prop |-> "lineSpacing",
                    given |-> a.lineSpacing.t # "undefined", value |-> a.lineSpacing],
                   [arg |-> "spaceAbove", prop |-> "spaceAbove",
                    given |-> a.spaceAbove.t # "undefined",
                    value |-> Magnitude(a.spaceAbove)],
                   [arg |-> "spaceBelow", prop |-> "spaceBelow",
                    given |-> a.spaceBelow.t # "undefined",
                    value |-> Magnitude(a.spaceBelow)]>>
        set == SelectSeq(props, LAMBDA e : e.given)
    IN  [style |-> [p \in {set[i].prop : i \in 1..Len(set)} |->
                        set[CHOOSE i \in 1..Len(set) : set[i].prop = p].value],
         fields |-> [i \in 1..Len(set) |-> set[i].prop]]

StyleArgs(a, styleName, built) ==
    (styleName :> built.style) @@
    [documentId |-> a.documentId, startIndex |-> a.startIndex, endIndex |-> a.endIndex,
     fields |-> JStr(JoinComma(built.fields))]

\* Formatting handlers without the no-change test.
FormattingHandlerAlwaysCalling(tool, a) ==
    IF tool = "googledocs_format_text"
    THEN ClientCall("updateTextStyle", StyleArgs(a, "textStyle", FormatTextStyle(a)))
    ELSE IF tool = "googledocs_format_paragraph"
    THEN ClientCall("updateParagraphStyle",
                    StyleArgs(a, "paragraphStyle", FormatParagraphStyle(a)))
    ELSE ClientCall(ToolHandler(tool).method, a)

\* Formatting handlers whose no-change test also fires on a single change.
FormattingHandlerNoOpOnOneField(tool, a) ==
    IF tool = "googledocs_format_text"
    THEN LET built == FormatTextStyle(a)
         IN  IF Len(built.fields) <= 1
             THEN Local(formatSuccess("No formatting changes specified", EmptyObject))
             ELSE ClientCall("updateTextStyle", StyleArgs(a, "textStyle", built))
    ELSE IF tool = "googledocs_format_paragraph"
    THEN LET built == FormatParagraphStyle(a)
         IN  IF Len(built.fields) <= 1
             THEN Local(formatSuccess("No paragraph formatting changes specified",
                                      EmptyObject))
             ELSE ClientCall("updateParagraphStyle", StyleArgs(a, "paragraphStyle", built))
    ELSE ClientCall(ToolHandler(tool).method, a)

FormattingHandler(tool, a) ==
    IF tool = "googledocs_format_text"
    THEN LET built == FormatTextStyle(a)
         IN  IF Len(built.fields) = 0
             THEN Local(formatSuccess("No formatting changes specified", EmptyObject))
             ELSE ClientCall("updateTextStyle", StyleArgs(a, "textStyle", built))
    ELSE IF tool = "googledocs_format_paragraph"
    THEN LET built == FormatParagraphStyle(a)
         IN  IF Len(built.fields) = 0
             THEN Local(formatSuccess("No paragraph formatting changes specified",
                                      EmptyObject))
             ELSE ClientCall("updateParagraphStyle", StyleArgs(a, "paragraphStyle", built))
    ELSE ClientCall(ToolHandler(tool).method, a)

\* Named-range handlers without the identifier check.
NamedRangeHandlerUnchecked(tool, a) == ClientCall(ToolHandler(tool).method, a)

NamedRangeHandler(tool, a) ==
    IF tool = "googledocs_delete_named_range"
    THEN IF ~JTruthy(a.namedRangeId) /\ ~JTruthy(a.name)
         THEN Local(LocalError("Either namedRangeId or name must be provided"))
         ELSE ClientCall("deleteNamedRange", a)
    ELSE IF tool = "googledocs_replace_named_range_content"
    THEN IF ~JTruthy(a.namedRangeId) /\ ~JTruthy(a.namedRangeName)
         THEN Local(LocalError("Either namedRangeId or namedRangeName must be provided"))
         ELSE ClientCall("replaceNamedRangeContent", a)
    ELSE ClientCall(ToolHandler(tool).method, a)

\* Handlers in which googledocs_insert_text calls appendText.
HandlerInsertViaAppend(tool, a) ==
    IF tool = "googledocs_insert_text" THEN ClientCall("appendText", a)
    ELSE IF tool \in DOMAIN FormattingToolSchemas THEN FormattingHandler(tool, a)
    ELSE IF tool \in DOMAIN NamedRangeToolSchemas THEN NamedRangeHandler(tool, a)
    ELSE ClientCall(ToolHandler(tool).method, a)

\* What a handler does with its parsed arguments before any await.
Handler(tool, a) ==
    IF tool \in DOMAIN FormattingToolSchemas THEN FormattingHandler(tool, a)
    ELSE IF tool \in DOMAIN NamedRangeToolSchemas THEN NamedRangeHandler(tool, a)
    ELSE ClientCall(ToolHandler(tool).method, a)

(***************************************************************************)
(* The client method a handler calls: the request it sends first, and what *)
(* the handler returns once the method has returned or thrown.             *)
(***************************************************************************)
\* JSON.stringify of one operation: members that are undefined are left out.
\* A caller-supplied raw operation (googledocs_batch_update) goes as it is.
IsUndefined(v) == DOMAIN v = {"t"} /\ v.t = "undefined"
Stringify(op) ==
    IF "t" \in DOMAIN op THEN op
    ELSE [variant \in DOMAIN op |->
            [f \in {g \in DOMAIN op[variant] : ~IsUndefined(op[variant][g])} |->
                op[variant][f]]]
\* A serialisation that keeps only the first operation of the sequence.
StringifyAllFirstOnly(requests) ==
    IF requests = <<>> THEN <<>> ELSE <<Stringify(requests[1])>>
StringifyAll(requests) == [i \in 1..Len(requests) |-> Stringify(requests[i])]

FirstRequest(method, m, accessToken) ==
    CASE method = "testConnection" ->
            createDocument(JStr("MCP Connection Test"), accessToken)
      [] method = "createDocument" -> createDocument(m.title, accessToken)
      [] method = "getDocument" -> getDocument(m.documentId.s, accessToken)
      [] method = "appendText" -> getDocument(m.documentId.s, accessToken)
      [] method = "batchUpdate" ->
            batchUpdate(m.documentId.s, StringifyAll(m.requests.items), accessToken)
      [] OTHER ->
            batchUpdate(m.documentId.s, StringifyAll(<<MethodOperation(method, m)>>),
                        accessToken)

\* An insert of appendText that requires the revision it read.
AppendInsertWithWriteControl(m, doc, accessToken) ==
    HttpRequest("POST",
                <<"/documents/">> \o encodeURIComponent(m.documentId.s)
                    \o <<":batchUpdate">>,
                [requests |-> StringifyAll(<<MethodOperation("insertText",
                                 [text |-> m.text, index |-> JNum(AppendIndex(doc))])>>),
                 writeControl |-> [requiredRevisionId |-> doc.documentId]],
                accessToken)

\* appendText after getDocument resolved to doc: the insertText it sends.
AppendInsert(m, doc, accessToken) ==
    batchUpdate(m.documentId.s,
                StringifyAll(<<MethodOperation("insertText",
                    [text |-> m.text, index |-> JNum(AppendIndex(doc))])>>),
                accessToken)

\* testConnection, given how its createDocument call ended: it never throws,
\* and reports a failure in the value it returns.
ConnectionReport(connected, message) ==
    [t |-> "connection", connected |-> connected, message |-> message]
\* `Successfully connected ... created with ID: ${testDoc.documentId}`
ConnectedMessage(testDoc) ==
    "Successfully connected to Google Docs API. Test document created with ID: "
        \o (IF testDoc.documentId = <<>> THEN "undefined" ELSE testDoc.documentId[1])

\* A testConnection without its catch.
testConnectionRethrowing(o) ==
    IF o.threw THEN o
    ELSE IF Nullish(o.value) THEN Throw(TypeError)
    ELSE Return(ConnectionReport(TRUE, ConnectedMessage(o.value)))

testConnection(o) ==
    IF o.threw THEN Return(ConnectionReport(FALSE, o.error.message))
    ELSE IF Nullish(o.value)
    THEN Return(ConnectionReport(FALSE, TypeError.message))
    ELSE Return(ConnectionReport(TRUE, ConnectedMessage(o.value)))

\* An appendText that reports a failed read as a failure of its own.
MethodOutcomeWrappingAppend(method, o) ==
    IF method = "testConnection" THEN testConnection(o)
    ELSE IF method = "appendText" /\ o.threw
    THEN Throw(GoogleDocsApiError("Failed to append text", 500))
    ELSE o

\* How the client method the handler awaits ends, given how the method's
\* last call of the request helper ended.
MethodOutcome(method, o) ==
    IF method = "testConnection" THEN testConnection(o) ELSE o

\* The googledocs_test_connection handler: the stringified report, or the
\* flagged text of its catch.
ConnectionResult(o) ==
    IF o.threw
    THEN [kind |-> "content", isError |-> TRUE,
          message |-> "Connection failed: " \o o.error.message, data |-> JUndefined]
    ELSE [kind |-> "content", isError |-> FALSE, message |-> o.value.message,
          data |-> o.value]

\* A handler whose catch reports success.
HandlerResultSwallowing(tool, o) ==
    IF tool = "googledocs_get" THEN formatResponse(o.value)
    ELSE formatSuccess(ToolHandler(tool).message, o.value)

\* The try/catch of a handler around its client call, given how the client
\* method ended (o: returned a value or threw).
HandlerResult(tool, o) ==
    IF tool = "googledocs_test_connection" THEN ConnectionResult(o)
    ELSE IF o.threw THEN formatError(o.error)
    ELSE IF ToolHandler(tool).reads /\ Nullish(o.value) THEN formatError(TypeError)
    ELSE IF tool = "googledocs_get" THEN formatResponse(o.value)
    ELSE formatSuccess(ToolHandler(tool).message, o.value)

(***************************************************************************)
(* The inputs the model draws.                                             *)
(***************************************************************************)
Tokens == {Absent, Str(""), Str("tokA")}
DocumentIds == {JChars(<<"d", "/", "1">>)}
RawOperations == {JRec("insertText"), JRec("deleteContentRange")}
MaxOps == 2

TypeSamples(spec) ==
    CASE spec.type = "string" ->
            IF spec.url THEN {JStr("https://example.com/i.png"), JStr("not a url")}
            ELSE IF spec.opt THEN {JStr(""), JStr("s1")}
            ELSE {JStr("s1")}
      [] spec.type = "number" ->
            IF spec.excl THEN {JNum(spec.min), JNum(12)}
            ELSE {JNum(spec.min - 1), JNum(spec.min)}
      [] spec.type = "boolean" -> {JBool(TRUE), JBool(FALSE)}
      [] spec.type = "enum" -> {JStr(CHOOSE v \in spec.values : TRUE), JStr("BOGUS")}
      [] spec.type = "record" -> {JRec("style")}
      [] spec.type = "array" ->
            IF "record" \in spec.values
            THEN {JArr(ops) : ops \in SeqsUpTo(RawOperations, MaxOps)}
                 \cup {JArr(<<JNum(1)>>)}
            ELSE {JArr(<<JNum(spec.min)>>), JArr(<<JNum(spec.min - 1)>>)}

ArgSamples(tool, field) ==
    IF field = "documentId" THEN DocumentIds \cup {JUndefined}
    ELSE IF tool = "googledocs_format_text"
            /\ field \in {"italic", "underline", "strikethrough"}
    THEN {JUndefined, JBool(field # "strikethrough")}
    ELSE TypeSamples(ToolSchema(tool)[field]) \cup {JUndefined}

Extend(F, f, S) == {g @@ (f :> v) : g \in F, v \in S}
RECURSIVE ArgProduct(_, _)
ArgProduct(tool, fields) ==
    IF fields = {} THEN {<<>>}
    ELSE LET f == CHOOSE x \in fields : TRUE
         IN  Extend(ArgProduct(tool, fields \ {f}), f, ArgSamples(tool, f))
\* The argument objects drawn for a tool: every combination of the samples
\* in which at most MaxRejectedFields fields violate the schema.
MaxRejectedFields == 1
RejectedFields(tool, args) ==
    {f \in DOMAIN ToolSchema(tool) : ~Accepts(ToolSchema(tool)[f], args[f])}
ArgSpace(tool) ==
    {args \in ArgProduct(tool, DOMAIN ToolSchema(tool)) :
        Cardinality(RejectedFields(tool, args)) <= MaxRejectedFields}

RateLimitBodies ==
    {TextBody, JsonBody(JObject(<<Str("quota exceeded")>>, Absent, Absent, Absent, <<>>))}
\* The reply of the remote to one operation, and the response of a remote
\* that answers a batch update with one reply per operation, in order.
ReplyTo(op) == [t |-> "reply", of |-> op]
AlignedResponse(req) ==
    JObject(Absent, Absent, <<>>, Str("d/1"),
            [i \in 1..Len(req.body.requests) |-> ReplyTo(req.body.requests[i])])
SuccessBodies(req) ==
    {TextBody, JsonBody(JNull), JsonBody(JNonObject("number")), JsonBody(JNonObject("array"))}
    \cup {JsonBody(j) : j \in IF req.method = "GET" THEN Documents ELSE BatchUpdateResponses}
    \cup IF "requests" \in DOMAIN req.body THEN {JsonBody(AlignedResponse(req))} ELSE {}

\* The responses whose content does not depend on the request: the non-ok
\* answers and the empty 204.
RequestIndependentResponses ==
    {Response(429, h, b) : h \in HeaderValues, b \in RateLimitBodies}
    \cup {Response(st, h, b) : st \in {401, 403}, h \in {NoHeader, Header(<<"3", "0">>)},
                               b \in ErrorBodies}
    \cup {Response(st, NoHeader, b) : st \in {400, 404, 500}, b \in ErrorBodies}
    \cup {Response(204, NoHeader, TextBody)}
\* The responses the remote may give to an outbound request.
Responses(req) ==
    RequestIndependentResponses
    \cup {Response(st, NoHeader, b) : st \in {200, 201}, b \in SuccessBodies(req)}

(***************************************************************************)
(* The state machine.                                                      *)
(***************************************************************************)
NoCall == [tool |-> "", args |-> <<>>]
NoResponse == Response(0, NoHeader, TextBody)
NoOutcome == [threw |-> FALSE, error |-> NoError, value |-> [t |-> "none"]]

\* No inbound HTTP request, and no HTTP response.
NoInbound == [path |-> "", method |-> "", header |-> Absent, message |-> NoCall]
NoReply == [status |-> 0, body |-> [t |-> "none"]]

\* A fetch invocation that has not started: no request, no credentials.
NoContext ==
    [state |-> "none", inbound |-> NoInbound, credentials |-> [accessToken |-> Absent],
     sent |-> <<>>, readEnd |-> 0, landedAt |-> 0, result |-> NoResult]

\* createGoogleDocsClient(credentials), with the tools registered on it.
Init ==
    /\ token \in Tokens
    /\ pc = "idle"
    /\ call = NoCall
    /\ netLog = <<>>
    /\ lastResp = NoResponse
    /\ outcome = NoOutcome
    /\ invoked = <<>>
    /\ returned = NoOutcome
    /\ result = NoResult
    /\ inbound = NoInbound
    /\ httpReply = NoReply
    /\ serverBuilt = FALSE
    /\ ctx = [i \in 1..MaxConcurrent |-> NoContext]
    /\ remoteEnd = 2
    /\ earlier = <<>>

\* A dispatch that refuses every call once a call has failed.
DispatchBlockedAfterFailure(tool, args, accessToken) ==
    IF earlier # <<>> /\ earlier[Len(earlier)] = "failed"
    THEN /\ pc = "idle"
         /\ call' = [tool |-> tool, args |-> args]
         /\ lastResp' = NoResponse
         /\ outcome' = NoOutcome
         /\ result' = LocalError("Server unavailable after an earlier failure")
         /\ pc' = "done"
         /\ netLog' = <<>>
         /\ invoked' = <<>>
         /\ returned' = NoOutcome
    ELSE
    /\ pc = "idle"
    /\ call' = [tool |-> tool, args |-> args]
    /\ lastResp' = NoResponse
    /\ outcome' = NoOutcome
    /\ IF ~SchemaAccepts(tool, args)
       THEN /\ result' = SchemaRejection
            /\ pc' = "done"
            /\ netLog' = <<>>
            /\ invoked' = <<>>
            /\ returned' = NoOutcome
       ELSE LET plan == Handler(tool, ParseArgs(tool, args))
            IN  IF plan.kind = "local"
                THEN /\ result' = plan.result
                     /\ pc' = "done"
                     /\ netLog' = <<>>
                     /\ invoked' = <<>>
                     /\ returned' = NoOutcome
                ELSE /\ invoked' = <<plan.method>>
                     /\ IF getAuthHeaders(accessToken).threw
                        THEN /\ returned' = MethodOutcome(plan.method,
                                                          getAuthHeaders(accessToken))
                             /\ result' = HandlerResult(tool, returned')
                             /\ pc' = "done"
                             /\ netLog' = <<>>
                        ELSE /\ returned' = NoOutcome
                             /\ result' = NoResult
                             /\ pc' = "awaiting"
                             /\ netLog' = <<FirstRequest(plan.method, plan.margs,
                                                         accessToken)>>

\* A tool call arrives: the arguments are validated against the registered
\* schema, and the handler runs up to its first outbound request.
Dispatch(tool, args, accessToken) ==
    /\ pc = "idle"
    /\ call' = [tool |-> tool, args |-> args]
    /\ lastResp' = NoResponse
    /\ outcome' = NoOutcome
    /\ IF ~SchemaAccepts(tool, args)
       THEN /\ result' = SchemaRejection
            /\ pc' = "done"
            /\ netLog' = <<>>
            /\ invoked' = <<>>
            /\ returned' = NoOutcome
       ELSE LET plan == Handler(tool, ParseArgs(tool, args))
            IN  IF plan.kind = "local"
                THEN /\ result' = plan.result
                     /\ pc' = "done"
                     /\ netLog' = <<>>
                     /\ invoked' = <<>>
                     /\ returned' = NoOutcome
                ELSE /\ invoked' = <<plan.method>>
                     /\ IF getAuthHeaders(accessToken).threw
                        THEN /\ returned' = MethodOutcome(plan.method,
                                                          getAuthHeaders(accessToken))
                             /\ result' = HandlerResult(tool, returned')
                             /\ pc' = "done"
                             /\ netLog' = <<>>
                        ELSE /\ returned' = NoOutcome
                             /\ result' = NoResult
                             /\ pc' = "awaiting"
                             /\ netLog' = <<FirstRequest(plan.method, plan.margs,
                                                         accessToken)>>

\* A tool call on a client constructed directly with its credentials.
CallTool(tool, args) ==
    /\ Dispatch(tool, args, token)
    /\ UNCHANGED <<token, routerVars, ctx, remoteEnd, earlier>>

\* What the remote may answer to the request in flight, if there is one.
PendingResponses ==
    IF pc = "awaiting" THEN Responses(netLog[Len(netLog)]) ELSE {}

\* A response handling that sends the request again on a rate-limit answer.
RespondRetrying(response) ==
    /\ pc = "awaiting"
    /\ response \in PendingResponses
    /\ lastResp' = response
    /\ outcome' = request(response)
    /\ UNCHANGED <<token, call, invoked, routerVars, ctx, remoteEnd, earlier>>
    /\ IF response.status = 429 /\ Len(netLog) = 1
       THEN /\ netLog' = Append(netLog, netLog[1])
            /\ pc' = "awaiting"
            /\ UNCHANGED <<returned, result>>
       ELSE /\ returned' = MethodOutcome(invoked[1], request(response))
            /\ result' = HandlerResult(call.tool, returned')
            /\ pc' = "done"
            /\ UNCHANGED netLog

\* The remote answers the request in flight; the request helper classifies
\* the response, and the client method and the handler run on from there.
Respond(response) ==
    /\ pc = "awaiting"
    /\ response \in PendingResponses
    /\ lastResp' = response
    /\ outcome' = request(response)
    /\ UNCHANGED <<token, call, invoked, routerVars, ctx, remoteEnd, earlier>>
    /\ LET plan == Handler(call.tool, ParseArgs(call.tool, call.args))
           o == request(response)
       IN  IF plan.method = "appendText" /\ Len(netLog) = 1 /\ ~o.threw
           THEN IF Nullish(o.value)
                THEN /\ returned' = Throw(TypeError)
                     /\ result' = HandlerResult(call.tool, returned')
                     /\ pc' = "done"
                     /\ UNCHANGED netLog
                ELSE /\ netLog' = Append(netLog, AppendInsert(plan.margs, o.value, token))
                     /\ pc' = "awaiting"
                     /\ UNCHANGED <<returned, result>>
           ELSE /\ returned' = MethodOutcome(plan.method, o)
                /\ result' = HandlerResult(call.tool, returned')
                /\ pc' = "done"
                /\ UNCHANGED netLog

\* fetch itself rejects (no response): the error propagates to the handler.
FetchFails ==
    /\ pc = "awaiting"
    /\ lastResp' = NoResponse
    /\ outcome' = Throw(FetchError)
    /\ returned' = MethodOutcome(invoked[1], Throw(FetchError))
    /\ result' = HandlerResult(call.tool, returned')
    /\ pc' = "done"
    /\ UNCHANGED <<token, call, netLog, invoked, routerVars, ctx, remoteEnd, earlier>>

\* The result goes back to the caller; nothing of the call is retained.
Deliver ==
    /\ pc = "done"
    /\ pc' = "idle"
    /\ call' = NoCall
    /\ netLog' = <<>>
    /\ lastResp' = NoResponse
    /\ outcome' = NoOutcome
    /\ invoked' = <<>>
    /\ returned' = NoOutcome
    /\ result' = NoResult
    /\ UNCHANGED <<token, routerVars, ctx, remoteEnd, earlier>>

Next ==
    \/ \E tool \in Tools : \E args \in ArgSpace(tool) : CallTool(tool, args)
    \/ \E response \in PendingResponses : Respond(response)
    \/ FetchFails
    \/ Deliver

Spec == Init /\ [][Next]_vars

\* A session on one server: tool calls one after the other, with a record
\* of how each ended kept beside the server.
DeliverNoted ==
    /\ pc = "done"
    /\ Len(earlier) < MaxEarlier
    /\ earlier' = Append(earlier, IF result.isError THEN "failed" ELSE "ok")
    /\ pc' = "idle"
    /\ call' = NoCall
    /\ netLog' = <<>>
    /\ lastResp' = NoResponse
    /\ outcome' = NoOutcome
    /\ invoked' = <<>>
    /\ returned' = NoOutcome
    /\ result' = NoResult
    /\ UNCHANGED <<token, routerVars, ctx, remoteEnd>>

\* The answers drawn in a session: one status of each outcome of the
\* request helper, every body, and the Retry-After header absent or "30".
SessionResponses ==
    {response \in PendingResponses :
        /\ response.status \in {200, 204, 401, 429, 500}
        /\ response.retryAfter \in {NoHeader, Header(<<"3", "0">>)}}

SessionNext ==
    \/ \E tool \in {"googledocs_get", "googledocs_append_text"} :
         \E args \in ArgSpace(tool) : CallTool(tool, args)
    \/ \E response \in SessionResponses : Respond(response)
    \/ FetchFails
    \/ DeliverNoted

SessionSpec == Init /\ [][SessionNext]_vars

(***************************************************************************)
(* The Worker's fetch handler: routing, credentials, stateless MCP server. *)
(***************************************************************************)
SERVER_NAME == "primrose-mcp-googledocs"
SERVER_VERSION == "1.0.0"

\* types/env: the credentials are the value of the X-Google-Access-Token
\* header, and validation fails when the token is absent or empty.
parseTenantCredentials(req) == [accessToken |-> req.header]
validateCredentials(credentials) ==
    IF ~Truthy(credentials.accessToken)
    THEN Throw(AuthenticationError(
            "Missing required header: X-Google-Access-Token"))
    ELSE Return(JUndefined)

\* The static response bodies of the fetch handler.
HealthBody == [status |-> "ok", server |-> SERVER_NAME]
UnauthorizedBody(error) ==
    [error |-> "Unauthorized", message |-> error.message,
     required_headers |-> <<"X-Google-Access-Token">>]
InfoBody ==
    [name |-> SERVER_NAME, version |-> SERVER_VERSION,
     description |-> "Multi-tenant Google Docs MCP Server",
     endpoints |-> {"mcp", "health"},
     authentication |-> [required_headers |-> {"X-Google-Access-Token"}],
     tools |-> Tools]

\* A fetch handler that does not validate the credentials.
fetchWithoutValidation(req) ==
    IF req.path = "/health"
    THEN [route |-> "health", credentials |-> parseTenantCredentials(NoInbound),
          reply |-> [status |-> 200, body |-> HealthBody]]
    ELSE IF req.path = "/mcp" /\ req.method = "POST"
    THEN [route |-> "mcp", credentials |-> parseTenantCredentials(req),
          reply |-> NoReply]
    ELSE IF req.path = "/sse"
    THEN [route |-> "sse", credentials |-> parseTenantCredentials(NoInbound),
          reply |-> [status |-> 501, body |-> [text |-> "SSE endpoint requires Durable Objects. Enable in wrangler.jsonc."]]]
    ELSE [route |-> "default", credentials |-> parseTenantCredentials(NoInbound),
          reply |-> [status |-> 200, body |-> InfoBody]]

\* A fetch handler that answers /health to GET only.
fetchHealthGetOnly(req) ==
    IF req.path = "/health" /\ req.method = "GET"
    THEN [route |-> "health", credentials |-> parseTenantCredentials(NoInbound),
          reply |-> [status |-> 200, body |-> HealthBody]]
    ELSE IF req.path = "/mcp" /\ req.method = "POST"
    THEN LET credentials == parseTenantCredentials(req)
         IN  IF validateCredentials(credentials).threw
             THEN [route |-> "unauthorized", credentials |-> credentials,
                   reply |-> [status |-> 401,
                              body |-> UnauthorizedBody(
                                          validateCredentials(credentials).error)]]
             ELSE [route |-> "mcp", credentials |-> credentials, reply |-> NoReply]
    ELSE IF req.path = "/sse"
    THEN [route |-> "sse", credentials |-> parseTenantCredentials(NoInbound),
          reply |-> [status |-> 501, body |-> [text |-> "SSE endpoint requires Durable Objects. Enable in wrangler.jsonc."]]]
    ELSE [route |-> "default", credentials |-> parseTenantCredentials(NoInbound),
          reply |-> [status |-> 200, body |-> InfoBody]]

\* A fetch handler that serves MCP on /mcp whatever the method.
fetchMcpAnyMethod(req) ==
    IF req.path = "/health"
    THEN [route |-> "health", credentials |-> parseTenantCredentials(NoInbound),
          reply |-> [status |-> 200, body |-> HealthBody]]
    ELSE IF req.path = "/mcp"
    THEN LET credentials == parseTenantCredentials(req)
         IN  IF validateCredentials(credentials).threw
             THEN [route |-> "unauthorized", credentials |-> credentials,
                   reply |-> [status |-> 401,
                              body |-> UnauthorizedBody(
                                          validateCredentials(credentials).error)]]
             ELSE [route |-> "mcp", credentials |-> credentials, reply |-> NoReply]
    ELSE IF req.path = "/sse"
    THEN [route |-> "sse", credentials |-> parseTenantCredentials(NoInbound),
          reply |-> [status |-> 501, body |-> [text |-> "SSE endpoint requires Durable Objects. Enable in wrangler.jsonc."]]]
    ELSE [route |-> "default", credentials |-> parseTenantCredentials(NoInbound),
          reply |-> [status |-> 200, body |-> InfoBody]]

\* fetch(req): the route taken, the credentials resolved on the MCP
\* route, and the response of the routes that answer at once.
fetch(req) ==
    IF req.path = "/health"
    THEN [route |-> "health", credentials |-> parseTenantCredentials(NoInbound),
          reply |-> [status |-> 200, body |-> HealthBody]]
    ELSE IF req.path = "/mcp" /\ req.method = "POST"
    THEN LET credentials == parseTenantCredentials(req)
         IN  IF validateCredentials(credentials).threw
             THEN [route |-> "unauthorized", credentials |-> credentials,
                   reply |-> [status |-> 401,
                              body |-> UnauthorizedBody(
                                          validateCredentials(credentials).error)]]
             ELSE [route |-> "mcp", credentials |-> credentials, reply |-> NoReply]
    ELSE IF req.path = "/sse"
    THEN [route |-> "sse", credentials |-> parseTenantCredentials(NoInbound),
          reply |-> [status |-> 501, body |-> [text |-> "SSE endpoint requires Durable Objects. Enable in wrangler.jsonc."]]]
    ELSE [route |-> "default", credentials |-> parseTenantCredentials(NoInbound),
          reply |-> [status |-> 200, body |-> InfoBody]]

\* The response of the MCP handler: the envelope of the tool it dispatched,
\* or its own answer to a message that calls no tool.
McpReply(envelope) == [status |-> 200, body |-> [t |-> "mcp", result |-> envelope]]

\* The inbound requests: paths, methods, credential headers, and the MCP
\* message of the body (a tool call, or NoCall for a message calling no tool).
InboundRequests ==
    {[path |-> p, method |-> m, header |-> h, message |-> c] :
        p \in {"/health", "/mcp", "/sse", "/"},
        m \in {"GET", "POST"},
        h \in Tokens,
        c \in {NoCall}
               \cup UNION {{[tool |-> t, args |-> a] : a \in ArgSpace(t)} :
                              t \in {"googledocs_get", "googledocs_append_text"}}}

RouterInit == Init /\ token = Absent

\* fetch serves an inbound request up to its first await: the static routes
\* and a refused request are answered at once; on the MCP route the
\* credentials are validated and a server is built on them, and the
\* invocation waits in ctx[1] for the import of the MCP handler.  While it
\* waits, fetch may serve requests that are answered at once.
Receive(req) ==
    /\ pc = "idle"
    /\ inbound' = req
    /\ UNCHANGED <<pc, call, netLog, lastResp, outcome, invoked, returned, result,
                   remoteEnd, earlier>>
    /\ LET plan == fetch(req)
       IN  IF plan.route # "mcp"
           THEN /\ httpReply' = plan.reply
                /\ serverBuilt' = FALSE
                /\ token' = Absent
                /\ UNCHANGED ctx
           ELSE /\ ctx[1].state = "none"
                /\ httpReply' = NoReply
                /\ serverBuilt' = TRUE
                /\ token' = plan.credentials.accessToken
                /\ ctx' = [ctx EXCEPT ![1] = [NoContext EXCEPT
                                                  !.state = "admitted",
                                                  !.inbound = req,
                                                  !.credentials = plan.credentials]]

\* createMcpHandler(server) is imported and called with the request that
\* waits: it dispatches the tool the message calls, or answers itself a
\* message that calls no tool.
McpHandler ==
    /\ pc = "idle"
    /\ ctx[1].state = "admitted"
    /\ inbound' = ctx[1].inbound
    /\ serverBuilt' = TRUE
    /\ ctx' = [ctx EXCEPT ![1] = NoContext]
    /\ UNCHANGED <<remoteEnd, earlier>>
    /\ IF ctx[1].inbound.message = NoCall
       THEN /\ httpReply' = McpReply(NoResult)
            /\ token' = Absent
            /\ UNCHANGED <<pc, call, netLog, lastResp, outcome, invoked,
                           returned, result>>
       ELSE /\ httpReply' = NoReply
            /\ token' = ctx[1].credentials.accessToken
            /\ Dispatch(ctx[1].inbound.message.tool, ctx[1].inbound.message.args,
                        ctx[1].credentials.accessToken)

\* The MCP handler answers with the envelope of the tool; the server and its
\* client are dropped with the request.
SendReply ==
    /\ pc = "done"
    /\ httpReply' = McpReply(result)
    /\ pc' = "idle"
    /\ token' = Absent
    /\ call' = NoCall
    /\ netLog' = <<>>
    /\ lastResp' = NoResponse
    /\ outcome' = NoOutcome
    /\ invoked' = <<>>
    /\ returned' = NoOutcome
    /\ result' = NoResult
    /\ UNCHANGED <<inbound, serverBuilt, ctx, remoteEnd, earlier>>

RouterNext ==
    \/ \E req \in InboundRequests : Receive(req)
    \/ McpHandler
    \/ \E response \in PendingResponses : Respond(response)
    \/ FetchFails
    \/ SendReply

RouterSpec == RouterInit /\ [][RouterNext]_vars

(***************************************************************************)
(* Concurrent inbound requests: each fetch invocation has its own          *)
(* credentials, server and client; the remote document is shared.          *)
(***************************************************************************)
\* A server whose client is built once, on the credentials of the first
\* context, and reused by the others.
ClientCredentialsShared(c, i) ==
    IF c[1].state # "none" THEN c[1].credentials ELSE c[i].credentials

\* The credentials of the client that serves context i: createStatelessServer
\* builds a client on the credentials of its own request.
ClientCredentials(c, i) == c[i].credentials

\* fetch starts serving request req in context i, up to its first await: a
\* request that is refused or static is answered at once; otherwise the
\* credentials are validated, the server is built on them and the invocation
\* waits for the import of the MCP handler.
Arrive(i, req) ==
    /\ ctx[i].state = "none"
    /\ LET route == fetch(req)
           admitted == [ctx EXCEPT ![i].inbound = req,
                                   ![i].credentials = route.credentials]
       IN  ctx' = [admitted EXCEPT
                       ![i].state = IF route.route # "mcp" THEN "refused" ELSE "admitted"]
    /\ UNCHANGED <<token, pc, call, netLog, lastResp, outcome, invoked, returned, result,
                   routerVars, remoteEnd, earlier>>

\* The MCP handler of context i is called: the tool of the message (an
\* append or an insert with valid arguments) sends its first request on the
\* client of its server.
McpHandlerOf(i) ==
    /\ ctx[i].state = "admitted"
    /\ LET tool == ctx[i].inbound.message.tool
           plan == Handler(tool, ParseArgs(tool, ctx[i].inbound.message.args))
           accessToken == ClientCredentials(ctx, i).accessToken
       IN  IF getAuthHeaders(accessToken).threw
           THEN ctx' = [ctx EXCEPT
                            ![i].state = "done",
                            ![i].result = HandlerResult(tool,
                                MethodOutcome(plan.method, getAuthHeaders(accessToken)))]
           ELSE ctx' = [ctx EXCEPT
                            ![i].state = IF plan.method = "appendText"
                                         THEN "reading" ELSE "inserting",
                            ![i].sent = <<FirstRequest(plan.method, plan.margs,
                                                       accessToken)>>]
    /\ UNCHANGED <<token, pc, call, netLog, lastResp, outcome, invoked, returned, result,
                   routerVars, remoteEnd, earlier>>

\* What the remote answers to a read of the document: the document as it is
\* now, or a rate limit.
ReadResponses ==
    {Response(200, NoHeader,
              JsonBody(JObject(Absent, Absent,
                               << << <<[endIndex |-> <<remoteEnd>>]>> >> >>,
                               Str("d/1"), <<>>))),
     Response(429, NoHeader, TextBody)}

\* The remote answers the read of an append: appendText computes the index
\* from the document it got and sends the insert.
RemoteRead(i, response) ==
    /\ ctx[i].state = "reading"
    /\ response \in ReadResponses
    /\ LET tool == ctx[i].inbound.message.tool
           plan == Handler(tool, ParseArgs(tool, ctx[i].inbound.message.args))
           read == request(response)
           accessToken == ClientCredentials(ctx, i).accessToken
           o == IF read.threw THEN read ELSE getAuthHeaders(accessToken)
       IN  IF o.threw
           THEN ctx' = [ctx EXCEPT
                            ![i].state = "done",
                            ![i].result = HandlerResult(tool, MethodOutcome(plan.method, o))]
           ELSE ctx' = [ctx EXCEPT
                            ![i].state = "inserting",
                            ![i].readEnd = remoteEnd,
                            ![i].sent = Append(@, AppendInsert(plan.margs, read.value,
                                                               accessToken))]
    /\ UNCHANGED <<token, pc, call, netLog, lastResp, outcome, invoked, returned, result,
                   routerVars, remoteEnd, earlier>>

\* The remote applies the insert of context i to the document as it is now,
\* which grows by the inserted text (or refuses it once the document is
\* full), and the tool returns its envelope.
RemoteInsert(i) ==
    /\ ctx[i].state = "inserting"
    /\ LET tool == ctx[i].inbound.message.tool
           plan == Handler(tool, ParseArgs(tool, ctx[i].inbound.message.args))
           insert == ctx[i].sent[Len(ctx[i].sent)]
           response == IF remoteEnd < MaxRemoteEnd
                       THEN Response(200, NoHeader, JsonBody(AlignedResponse(insert)))
                       ELSE Response(400, NoHeader, TextBody)
       IN  /\ ctx' = [ctx EXCEPT
                          ![i].state = "done",
                          ![i].landedAt = IF remoteEnd < MaxRemoteEnd THEN remoteEnd ELSE 0,
                          ![i].result = HandlerResult(tool,
                                            MethodOutcome(plan.method, request(response)))]
           /\ remoteEnd' = IF remoteEnd < MaxRemoteEnd THEN remoteEnd + 1 ELSE remoteEnd
    /\ UNCHANGED <<token, pc, call, netLog, lastResp, outcome, invoked, returned, result,
                   routerVars, earlier>>

ConcurrentNext ==
    \/ \E i \in 1..MaxConcurrent :
         \E h \in {Absent, Str("tokA"), Str("tokB")} :
           \E c \in {[tool |-> "googledocs_append_text",
                      args |-> [documentId |-> JChars(<<"d", "/", "1">>),
                                text |-> JStr("s1")]],
                     [tool |-> "googledocs_insert_text",
                      args |-> [documentId |-> JChars(<<"d", "/", "1">>),
                                text |-> JStr("s1"), index |-> JNum(1)]]} :
             Arrive(i, [path |-> "/mcp", method |-> "POST", header |-> h, message |-> c])
    \/ \E i \in 1..MaxConcurrent : McpHandlerOf(i)
    \/ \E i \in 1..MaxConcurrent : \E response \in ReadResponses : RemoteRead(i, response)
    \/ \E i \in 1..MaxConcurrent : RemoteInsert(i)

ConcurrentSpec == RouterInit /\ [][ConcurrentNext]_vars

(***************************************************************************)
(* Properties of the request helper's error classification.                *)
(***************************************************************************)
\* A response has been received and classified.
Classified == lastResp.status # 0

\* The header value is a decimal numeral, and the number it denotes.
IsDecimal(cs) == cs # <<>> /\ \A i \in 1..Len(cs) : IsDigit(cs[i])
RECURSIVE DecimalValue(_)
DecimalValue(cs) ==
    IF cs = <<>> THEN 0
    ELSE 10 * DecimalValue(SubSeq(cs, 1, Len(cs) - 1)) + DigitVal(cs[Len(cs)])

\* C1: a response with status 429 whose Retry-After header is a decimal
\* numeral N makes the request helper throw a RateLimitError carrying
\* retry-after N, whatever the body is.
C1_RetryAfterParsed ==
    (lastResp.status = 429 /\ lastResp.retryAfter.present
        /\ IsDecimal(lastResp.retryAfter.chars))
    => /\ outcome.threw
       /\ outcome.error.name = "RateLimitError"
       /\ outcome.error.retryAfter = Num(DecimalValue(lastResp.retryAfter.chars))

\* Retry-After: 30 on a 429 with a JSON body was classified as retry-after 30.
C1_Witness ==
    /\ lastResp.status = 429
    /\ lastResp.retryAfter = Header(<<"3", "0">>)
    /\ lastResp.body.valid
    /\ outcome.threw
    /\ outcome.error.retryAfter = Num(30)

\* C2: a response with status 429 whose Retry-After header is absent, empty
\* or not parseable as a number makes the client throw a RateLimitError
\* carrying retry-after 60.
C2_RetryAfterDefault ==
    (lastResp.status = 429
        /\ (\/ ~lastResp.retryAfter.present
            \/ lastResp.retryAfter.chars = <<>>
            \/ parseInt(lastResp.retryAfter.chars) = NaN))
    => /\ outcome.threw
       /\ outcome.error.name = "RateLimitError"
       /\ outcome.error.retryAfter = Num(60)

\* The part of C2 the code keeps: an absent or empty header gives 60.
C2_AbsentOrEmptyDefault ==
    (lastResp.status = 429
        /\ (~lastResp.retryAfter.present \/ lastResp.retryAfter.chars = <<>>))
    => outcome.error.retryAfter = Num(60)

\* C3: a response with status 401 or 403 makes the client throw the same
\* AuthenticationError whatever the body is; nothing of the body reaches it.
C3_AuthenticationFailure ==
    lastResp.status \in {401, 403}
    => outcome = Throw(AuthenticationError(
                    "Authentication failed. Check your OAuth access token."))

\* A 403 whose body is a JSON error envelope with a remote message was
\* classified as an AuthenticationError.
C3_Witness ==
    /\ lastResp.status = 403
    /\ lastResp.body.valid
    /\ lastResp.body.json.t = "object"
    /\ lastResp.body.json.error = <<Str("quota exceeded")>>
    /\ outcome.threw
    /\ outcome.error.name = "AuthenticationError"

\* The remote message of a body: error.message when the body is a JSON object
\* that has a non-empty one, else its non-empty top-level message, else none.
RemoteMessage(body) ==
    IF ~body.valid \/ body.json.t # "object" THEN Absent
    ELSE IF body.json.error # <<>> /\ Truthy(body.json.error[1]) THEN body.json.error[1]
    ELSE IF Truthy(body.json.message) THEN body.json.message
    ELSE Absent

\* C4: a response whose status is not 2xx and not 429, 401 or 403 makes the
\* client throw a GoogleDocsApiError carrying the status and, as message,
\* the remote message of the body if it has one, else "API error: <status>".
C4_ApiError ==
    (Classified /\ lastResp.status \notin 200..299
        /\ lastResp.status \notin {429, 401, 403})
    => /\ outcome.threw
       /\ outcome.error.name = "GoogleDocsApiError"
       /\ outcome.error.statusCode = lastResp.status
       /\ outcome.error.message =
            IF RemoteMessage(lastResp.body) # Absent
            THEN RemoteMessage(lastResp.body)[1]
            ELSE "API error: " \o ToString(lastResp.status)

\* A 404 whose envelope holds both error.message and a top-level message
\* was classified with error.message.
C4_Witness ==
    /\ lastResp.status = 404
    /\ lastResp.body.valid
    /\ lastResp.body.json.t = "object"
    /\ lastResp.body.json.error = <<Str("quota exceeded")>>
    /\ lastResp.body.json.message = Str("bad request")
    /\ outcome.error.message = "quota exceeded"
    /\ outcome.error.statusCode = 404

\* The one outcome of a classified response.
OutcomeKind(o) ==
    IF o.threw THEN o.error.name
    ELSE IF o.value.t = "undefined" THEN "empty"
    ELSE "parsed"

\* The classification as the claim states it: every 2xx status succeeds.
StatedKind(response) ==
    IF response.status = 429 THEN "RateLimitError"
    ELSE IF response.status \in {401, 403} THEN "AuthenticationError"
    ELSE IF response.status \notin 200..299 THEN "GoogleDocsApiError"
    ELSE IF response.status = 204 THEN "empty"
    ELSE "parsed"

\* C5 as stated: every response gets exactly the outcome the ordered policy
\* names (429, then 401/403, then other non-2xx, then 204, then parsed
\* body), and no 2xx status yields a failure.
C5_AsStated ==
    Classified
    => /\ OutcomeKind(outcome) = StatedKind(lastResp)
       /\ (lastResp.status \in 200..299 => ~outcome.threw)

\* C5 amended: every response gets exactly the outcome the ordered policy
\* names; a 2xx status never yields one of the client's typed failures, a
\* 204 succeeds with an empty result, and any other 2xx status succeeds with
\* the parsed body when the body is valid JSON and fails with the JSON
\* parser's error when it is not.
C5_Classification ==
    Classified
    => /\ OutcomeKind(outcome) =
            IF StatedKind(lastResp) = "parsed" /\ ~lastResp.body.valid
            THEN "SyntaxError"
            ELSE StatedKind(lastResp)
       /\ (OutcomeKind(outcome) = "parsed" => outcome.value = lastResp.body.json)
       /\ (lastResp.status \in 200..299 =>
              outcome.error.name \notin
                {"RateLimitError", "AuthenticationError", "GoogleDocsApiError"})

\* A 201 with a JSON body was classified as success with the parsed body.
C5_Witness ==
    /\ lastResp.status = 201
    /\ lastResp.body.valid
    /\ lastResp.body.json.t = "object"
    /\ ~outcome.threw
    /\ outcome.value = lastResp.body.json

(***************************************************************************)
(* Properties of appendText and of the tool handlers.                      *)
(***************************************************************************)
\* appendText has read the document and its insert is in flight; the content
\* blocks of the document it read.
AppendSent == invoked = <<"appendText">> /\ Len(netLog) = 2 /\ pc = "awaiting"
FetchedBlocks ==
    LET doc == lastResp.body.json
    IN  IF doc.body = <<>> \/ doc.body[1] = <<>> THEN <<>> ELSE doc.body[1][1]

\* C6: appendText on a document whose last content block ends at index E
\* sends, after the read, one batch update holding a single insert-text
\* operation at index max(1, E - 1); the index sent is at least 1 for every
\* document.
C6_AppendIndex ==
    /\ invoked = <<"appendText">> => Len(netLog) <= 2
    /\ AppendSent
       => LET ops == netLog[2].body.requests
              blocks == FetchedBlocks
          IN  /\ netLog[1].method = "GET"
              /\ Len(ops) = 1
              /\ DOMAIN ops[1] = {"insertText"}
              /\ ops[1].insertText.location.index.t = "number"
              /\ ops[1].insertText.location.index.n >= 1
              /\ (blocks # <<>> /\ blocks[Len(blocks)].endIndex # <<>>) =>
                   LET E == blocks[Len(blocks)].endIndex[1]
                   IN  ops[1].insertText.location.index.n = IF E - 1 >= 1 THEN E - 1 ELSE 1

\* appendText read a document whose last block ends at 50 and sent the
\* insert at 49.
C6_Witness ==
    /\ AppendSent
    /\ FetchedBlocks # <<>>
    /\ FetchedBlocks[Len(FetchedBlocks)].endIndex = <<50>>
    /\ netLog[2].body.requests[1].insertText.location.index = JNum(49)

\* Whether a value violates the schema its field declares (zod's rules).
ViolatesField(spec, v) ==
    IF v.t = "undefined" THEN ~spec.opt
    ELSE CASE spec.type = "number" ->
                \/ v.t # "number"
                \/ spec.hasMin /\ v.n < spec.min
                \/ spec.hasMin /\ spec.excl /\ v.n = spec.min
           [] spec.type = "string" ->
                \/ v.t # "string"
                \/ spec.url /\ v.s \notin Urls
           [] spec.type = "enum" -> v.t # "string" \/ v.s \notin spec.values
           [] spec.type = "boolean" -> v.t # "boolean"
           [] spec.type = "record" -> v.t # "object"
           [] spec.type = "array" ->
                \/ v.t # "array"
                \/ \E i \in 1..Len(v.items) :
                      IF "record" \in spec.values THEN v.items[i].t # "object"
                      ELSE \/ v.items[i].t # "number"
                           \/ spec.hasMin /\ v.items[i].n < spec.min
FailsSchema ==
    \E f \in DOMAIN ToolSchema(call.tool) :
        ViolatesField(ToolSchema(call.tool)[f], call.args[f])

\* C7: a tool call whose arguments fail the tool's declared schema is
\* rejected without the handler running: no client method is invoked and no
\* outbound request is made for it.
C7_RejectedBeforeHandler ==
    (pc # "idle" /\ FailsSchema)
    => /\ pc = "done"
       /\ result = SchemaRejection
       /\ invoked = <<>>
       /\ netLog = <<>>

\* googledocs_insert_text with index 0 was rejected with no request sent.
C7_Witness ==
    /\ pc = "done"
    /\ call.tool = "googledocs_insert_text"
    /\ call.args.index = JNum(0)
    /\ call.args.documentId.t = "string"
    /\ result = SchemaRejection
    /\ netLog = <<>>

\* An identifier argument that is not provided: undefined or the empty string.
NotProvided(v) == v.t = "undefined" \/ (v.t = "string" /\ v.s = "")
NamedRangeIds(tool) ==
    IF tool = "googledocs_delete_named_range" THEN {"namedRangeId", "name"}
    ELSE {"namedRangeId", "namedRangeName"}
NamedRangeCall ==
    /\ pc # "idle"
    /\ call.tool \in {"googledocs_delete_named_range",
                      "googledocs_replace_named_range_content"}
    /\ ~FailsSchema

\* C8: googledocs_delete_named_range and
\* googledocs_replace_named_range_content, called with neither of their two
\* identifiers, return an error result naming the two fields without invoking
\* a client method or sending a request; called with at least one identifier
\* they invoke their client method.
C8_NamedRangePrecondition ==
    NamedRangeCall
    => IF \A f \in NamedRangeIds(call.tool) : NotProvided(call.args[f])
       THEN /\ pc = "done"
            /\ result.isError
            /\ result.message =
                 IF call.tool = "googledocs_delete_named_range"
                 THEN "Either namedRangeId or name must be provided"
                 ELSE "Either namedRangeId or namedRangeName must be provided"
            /\ invoked = <<>>
            /\ netLog = <<>>
       ELSE invoked = <<ToolHandler(call.tool).method>>

\* googledocs_delete_named_range without identifiers returned the local
\* error.
C8_Witness ==
    /\ pc = "done"
    /\ call.tool = "googledocs_delete_named_range"
    /\ call.args.namedRangeId.t = "undefined"
    /\ call.args.name.t = "undefined"
    /\ call.args.documentId.t = "string"
    /\ result.isError
    /\ invoked = <<>>

\* C9: a handler always returns a result; when the client method it invoked
\* threw (authentication, rate limit, API or transport failure) the result
\* is an error envelope with the error flag set, never a success envelope.
C9_NonThrowing ==
    pc = "done"
    => /\ result.kind # "none"
       /\ (invoked # <<>> /\ returned.threw)
            => /\ result.isError
               /\ result.kind = "error"
               /\ result.message = returned.error.message

\* A handler whose client method threw a RateLimitError returned an error
\* envelope.
C9_Witness ==
    /\ pc = "done"
    /\ invoked = <<"batchUpdate">>
    /\ returned.threw
    /\ returned.error.name = "RateLimitError"
    /\ result.isError

\* The style arguments of the two formatting tools that build their style.
StyleFields(tool) ==
    IF tool = "googledocs_format_text"
    THEN {"bold", "italic", "underline", "strikethrough", "fontSize", "fontFamily"}
    ELSE {"alignment", "headingType", "lineSpacing", "spaceAbove", "spaceBelow"}
NoStyleGiven ==
    /\ call.tool \in {"googledocs_format_text", "googledocs_format_paragraph"}
    /\ \A f \in StyleFields(call.tool) : call.args[f].t = "undefined"

\* C10 as stated: a tool call that returned a success envelope has invoked
\* exactly one client method.
C10_AsStated ==
    (pc = "done" /\ result.kind = "success") => Len(invoked) = 1

\* C10 amended: a tool call that returned a success envelope has invoked at
\* most one client method, and exactly one unless it is googledocs_format_text
\* or googledocs_format_paragraph called with no style argument, which
\* succeeds without invoking the client or sending a request.
C10_AtMostOneMethod ==
    (pc = "done" /\ result.kind = "success")
    => /\ Len(invoked) <= 1
       /\ (Len(invoked) = 0 <=> NoStyleGiven)
       /\ (Len(invoked) = 0 => netLog = <<>>)

\* googledocs_insert_table returned a success envelope after one client
\* method and one request.
C10_Witness ==
    /\ pc = "done"
    /\ result.kind = "success"
    /\ invoked = <<"insertTable">>
    /\ Len(netLog) = 1

(***************************************************************************)
(* Properties of the requests a tool call sends.                           *)
(***************************************************************************)
\* C12: no retry. When the answer to a request in flight is a failure (the
\* request helper throws, or fetch rejects), no further request is sent for
\* the call and the call ends in that step with the failure as the client
\* method's outcome (testConnection reports it in the value it returns);
\* no request is ever sent twice within one call.
C12_NoRetry ==
    [][/\ (pc = "awaiting" /\ outcome'.threw)
            => /\ netLog' = netLog
               /\ pc' = "done"
               /\ invoked[1] # "testConnection" => returned' = Throw(outcome'.error)
               /\ invoked[1] = "testConnection"
                    => returned'.value.message = outcome'.error.message
       /\ \A i, j \in 1..Len(netLog') : i # j => netLog'[i] # netLog'[j]
      ]_vars

\* A call whose single request was answered 429 ended with the
\* RateLimitError and one request sent.
C12_Witness ==
    /\ pc = "done"
    /\ lastResp.status = 429
    /\ returned.threw
    /\ returned.error.name = "RateLimitError"
    /\ invoked = <<"insertText">>
    /\ Len(netLog) = 1

\* A request to a document's batch-update endpoint, carrying operations.
IsBatchUpdateRequest(r) ==
    /\ r.method = "POST"
    /\ Len(r.url) >= 3
    /\ r.url[1] = API_BASE_URL
    /\ r.url[2] = "/documents/"
    /\ r.url[Len(r.url)] = ":batchUpdate"
    /\ DOMAIN r.body = {"requests"}

\* C13 as stated: every request that is not a GET, from any client method,
\* is a batchUpdate request to the document's batch-update endpoint.
C13_AsStated ==
    \A i \in 1..Len(netLog) :
        netLog[i].method # "GET" => IsBatchUpdateRequest(netLog[i])

\* C13 amended: every request that is not a GET is a batchUpdate request to
\* the document's batch-update endpoint, except the one createDocument sends
\* (for itself or for testConnection), which is a POST to /documents.
C13_MutatingRequests ==
    \A i \in 1..Len(netLog) :
        netLog[i].method # "GET"
        => IF invoked[1] \in {"createDocument", "testConnection"}
           THEN /\ netLog[i].method = "POST"
                /\ netLog[i].url = <<API_BASE_URL, "/documents">>
                /\ DOMAIN netLog[i].body = {"title"}
           ELSE IsBatchUpdateRequest(netLog[i])

\* deleteContent sent its operation to the batch-update endpoint.
C13_Witness ==
    /\ invoked = <<"deleteContent">>
    /\ Len(netLog) = 1
    /\ IsBatchUpdateRequest(netLog[1])

\* C14: a tool call sends at most two outbound requests; only
\* googledocs_append_text sends two, and its second request is sent in the
\* step that receives the successful answer to the first, never while the
\* first is in flight.
C14_AtMostTwoSequential ==
    [][/\ Len(netLog') <= 2
       /\ Len(netLog') = 2 => call'.tool = "googledocs_append_text"
       /\ Len(netLog') > Len(netLog)
            => \/ netLog = <<>> /\ Len(netLog') = 1
               \/ /\ pc = "awaiting"
                  /\ Len(netLog) = 1
                  /\ netLog' = Append(netLog, netLog'[2])
                  /\ lastResp'.status \in 200..299
                  /\ ~outcome'.threw
      ]_vars

\* googledocs_append_text finished after its two requests.
C14_Witness ==
    /\ pc = "done"
    /\ call.tool = "googledocs_append_text"
    /\ Len(netLog) = 2
    /\ netLog[1].method = "GET"
    /\ netLog[2].method = "POST"
    /\ ~returned.threw

\* The operations of the batch update the caller of the tool submitted: the
\* caller's own sequence for googledocs_batch_update, the operation the
\* client method built otherwise.
SubmittedOperations ==
    IF call.tool = "googledocs_batch_update" THEN call.args.requests.items
    ELSE netLog[Len(netLog)].body.requests

\* The remote answered the batch update it received with one reply per
\* operation, in order.
AnsweredPerOperation ==
    /\ pc = "done"
    /\ netLog # <<>>
    /\ IsBatchUpdateRequest(netLog[Len(netLog)])
    /\ lastResp.status \in {200, 201}
    /\ lastResp.body = JsonBody(AlignedResponse(netLog[Len(netLog)]))

\* C17: when the remote answers a batch update of N operations with one
\* reply per operation, the client method returns, and the tool's envelope
\* carries, a reply list of length N whose i-th reply is the reply to the
\* i-th submitted operation.
C17_RepliesAligned ==
    AnsweredPerOperation
    => /\ ~returned.threw
       /\ Len(returned.value.replies) = Len(SubmittedOperations)
       /\ \A i \in 1..Len(SubmittedOperations) :
             returned.value.replies[i] = ReplyTo(SubmittedOperations[i])
       /\ result.data = returned.value

\* googledocs_batch_update with two different operations got back two
\* replies, the first to the first operation.
C17_Witness ==
    /\ AnsweredPerOperation
    /\ call.tool = "googledocs_batch_update"
    /\ call.args.requests.items = <<JRec("insertText"), JRec("deleteContentRange")>>
    /\ Len(returned.value.replies) = 2
    /\ returned.value.replies[1] = ReplyTo(JRec("insertText"))

\* C18: googledocs_batch_update sends the operation sequence of its caller
\* as it is, the same elements in the same order, whatever the operations
\* are and also when the sequence is empty: every sequence the schema
\* accepts is sent, in one batch update of the caller's document.
C18_OperationsVerbatim ==
    (/\ pc # "idle"
     /\ call.tool = "googledocs_batch_update"
     /\ SchemaAccepts(call.tool, call.args)
     /\ Truthy(token))
    => /\ invoked = <<"batchUpdate">>
       /\ Len(netLog) = 1
       /\ IsBatchUpdateRequest(netLog[1])
       /\ netLog[1].url
            = <<API_BASE_URL, "/documents/">>
              \o encodeURIComponent(call.args.documentId.s) \o <<":batchUpdate">>
       /\ netLog[1].body.requests = call.args.requests.items

\* The empty sequence was sent, and the remote's answer came back as a
\* success.
C18_Witness ==
    /\ pc = "done"
    /\ call.tool = "googledocs_batch_update"
    /\ Len(netLog) = 1
    /\ call.args.requests.items = <<>>
    /\ netLog[1].body.requests = <<>>
    /\ ~returned.threw
    /\ result.isError = FALSE

\* Two operations were sent in the caller's order.
C18_WitnessTwo ==
    /\ pc = "awaiting"
    /\ call.tool = "googledocs_batch_update"
    /\ netLog[1].body.requests = <<JRec("deleteContentRange"), JRec("insertText")>>

\* The variant of the Operation union a client method builds: the variant
\* named like the method, deleteContentRange for deleteContent, and
\* insertText for appendText, which inserts through insertText.
VariantOf(method) ==
    CASE method = "deleteContent" -> "deleteContentRange"
      [] method = "appendText" -> "insertText"
      [] OTHER -> method

GenericMethods == {"batchUpdate", "getDocument", "createDocument", "testConnection"}

\* C19: a client method other than batchUpdate, getDocument, createDocument
\* and testConnection submits batches of exactly one operation, and that
\* operation has exactly one variant field, the one of the method.
C19_OneOperationOneVariant ==
    (invoked # <<>> /\ invoked[1] \notin GenericMethods)
    => \A i \in 1..Len(netLog) :
          netLog[i].method # "GET"
          => /\ IsBatchUpdateRequest(netLog[i])
             /\ Len(netLog[i].body.requests) = 1
             /\ DOMAIN netLog[i].body.requests[1] = {VariantOf(invoked[1])}

\* replaceNamedRangeContent has sent its batch: one operation, of the
\* replaceNamedRangeContent variant only.
C19_Witness ==
    /\ pc = "awaiting"
    /\ invoked = <<"replaceNamedRangeContent">>
    /\ Len(netLog) = 1
    /\ Len(netLog[1].body.requests) = 1
    /\ DOMAIN netLog[1].body.requests[1] = {"replaceNamedRangeContent"}

(***************************************************************************)
(* Properties of the fetch handler.                                        *)
(***************************************************************************)
\* The request being served, or served last, is a POST to /mcp without a
\* usable credential header.
Uncredentialed ==
    /\ inbound.path = "/mcp"
    /\ inbound.method = "POST"
    /\ inbound.header \in {Absent, Str("")}

\* C11: a POST to /mcp whose credential header is absent or empty is
\* answered with status 401 and a body naming X-Google-Access-Token as the
\* required header; no server is built for it, no tool is dispatched and no
\* outbound request is sent.
C11_Unauthorized ==
    Uncredentialed
    => /\ httpReply.status = 401
       /\ httpReply.body.error = "Unauthorized"
       /\ httpReply.body.required_headers = <<"X-Google-Access-Token">>
       /\ ~serverBuilt
       /\ pc = "idle"
       /\ call = NoCall
       /\ invoked = <<>>
       /\ netLog = <<>>

\* A tool call posted to /mcp with an empty credential header was refused.
C11_Witness ==
    /\ Uncredentialed
    /\ inbound.header = Str("")
    /\ inbound.message.tool = "googledocs_append_text"
    /\ httpReply.status = 401

\* The request being served is one of the static routes: /health, or a
\* path and method that is neither POST /mcp nor /sse.
StaticRoute(req) ==
    \/ req.path = "/health"
    \/ /\ req.path # "/sse"
       /\ req.path # ""
       /\ ~(req.path = "/mcp" /\ req.method = "POST")

\* C20: /health and every request that is not POST /mcp or /sse are answered
\* with status 200 and the static health or info body, the same with or
\* without a credential header; no server or client is built and no
\* outbound request is sent.
C20_StaticRoutes ==
    StaticRoute(inbound)
    => /\ httpReply.status = 200
       /\ httpReply.body = IF inbound.path = "/health" THEN HealthBody ELSE InfoBody
       /\ \A h \in Tokens :
             fetch([inbound EXCEPT !.header = h]).reply = httpReply
       /\ ~serverBuilt
       /\ token = Absent
       /\ pc = "idle"
       /\ call = NoCall
       /\ netLog = <<>>

\* A GET of /mcp carrying a token and a tool call got the info body.
C20_Witness ==
    /\ inbound.path = "/mcp"
    /\ inbound.method = "GET"
    /\ inbound.header = Str("tokA")
    /\ inbound.message.tool = "googledocs_get"
    /\ httpReply.body = InfoBody

\* /health was answered for a request carrying a token.
C20_WitnessHealth ==
    /\ inbound.path = "/health"
    /\ inbound.header = Str("tokA")
    /\ httpReply.body = HealthBody

(***************************************************************************)
(* Properties of concurrent inbound requests.                              *)
(***************************************************************************)
\* C15: whatever the interleaving of concurrent POSTs to /mcp, every
\* outbound request sent for an inbound request carries, as its bearer
\* token, the token of that inbound request's own header.
C15_OwnToken ==
    \A i \in 1..MaxConcurrent :
        \A k \in 1..Len(ctx[i].sent) :
            /\ ctx[i].inbound.header # Absent
            /\ ctx[i].sent[k].headers.Authorization
                 = "Bearer " \o ctx[i].inbound.header[1]

\* Two requests with different tokens are being served at once, each with a
\* request of its own in flight.
C15_Witness ==
    /\ ctx[1].state = "inserting"
    /\ ctx[2].state = "inserting"
    /\ ctx[1].inbound.header = Str("tokB")
    /\ ctx[2].inbound.header = Str("tokA")
    /\ Len(ctx[1].sent) = 2
    /\ ctx[2].sent[1].headers.Authorization = "Bearer tokA"

\* The insert of an append, once sent.
AppendInserts(i) ==
    /\ ctx[i].inbound.message.tool = "googledocs_append_text"
    /\ Len(ctx[i].sent) = 2

\* C16: the insert of an append is a plain batch update, with no
\* write-control member, at the index computed from the document that was
\* read, whatever the remote document has become since; so a mutation that
\* lands between the read and the insert leaves the insert at an index that
\* is no longer the current last end index minus one, and the remote
\* applies it.
C16_AppendNotAtomic ==
    \A i \in 1..MaxConcurrent :
        AppendInserts(i)
        => /\ IsBatchUpdateRequest(ctx[i].sent[2])
           /\ DOMAIN ctx[i].sent[2].body = {"requests"}
           /\ DOMAIN ctx[i].sent[2].headers = {"t", "Authorization", "ContentType"}
           /\ ctx[i].sent[2].body.requests[1].insertText.location.index
                = JNum(Max(1, ctx[i].readEnd - 1))

\* Another request's insert landed between the read and the insert of an
\* append: the append's insert was applied at an index that was no longer
\* the last end index minus one, and the tool reported success.
C16_Witness ==
    \E i \in 1..MaxConcurrent :
        /\ AppendInserts(i)
        /\ ctx[i].state = "done"
        /\ ctx[i].result.isError = FALSE
        /\ ctx[i].landedAt > ctx[i].readEnd
        /\ ctx[i].sent[2].body.requests[1].insertText.location.index
             # JNum(Max(1, ctx[i].landedAt - 1))

(***************************************************************************)
(* Independence of a tool call from the calls before it.                   *)
(***************************************************************************)
\* What a server that has handled no call yet does with a call, up to its
\* first outbound request.
FirstStep(c, accessToken) ==
    LET plan == Handler(c.tool, ParseArgs(c.tool, c.args))
    IN  IF ~SchemaAccepts(c.tool, c.args)
        THEN [pc |-> "done", netLog |-> <<>>, result |-> SchemaRejection]
        ELSE IF plan.kind = "local"
        THEN [pc |-> "done", netLog |-> <<>>, result |-> plan.result]
        ELSE IF getAuthHeaders(accessToken).threw
        THEN [pc |-> "done", netLog |-> <<>>,
              result |-> HandlerResult(c.tool,
                            MethodOutcome(plan.method, getAuthHeaders(accessToken)))]
        ELSE [pc |-> "awaiting",
              netLog |-> <<FirstRequest(plan.method, plan.margs, accessToken)>>,
              result |-> NoResult]

\* C21: the server keeps nothing between tool calls, so a call is not
\* affected by the calls before it, failed or not: the credentials never
\* change, nothing of a call is left once it is delivered, a call starts as
\* it would on a server that has handled no call, and it ends with the
\* result its method gives for the response received.
C21_CallsIndependent ==
    [][/\ token' = token
       /\ pc' = "idle"
            => <<call', netLog', lastResp', outcome', invoked', returned', result'>>
                 = <<NoCall, <<>>, NoResponse, NoOutcome, <<>>, NoOutcome, NoResult>>
       /\ (pc = "idle" /\ pc' # "idle")
            => [pc |-> pc', netLog |-> netLog', result |-> result']
                 = FirstStep(call', token)
       /\ (pc = "awaiting" /\ pc' = "done")
            => /\ result' = HandlerResult(call.tool, returned')
               /\ (invoked[1] # "appendText" \/ Len(netLog) = 2)
                    => returned' = MethodOutcome(invoked[1], outcome')
      ]_vars

\* After a failed call and a successful one, googledocs_get returned the
\* document the remote sent.
C21_Witness ==
    /\ earlier = <<"failed", "ok">>
    /\ pc = "done"
    /\ call.tool = "googledocs_get"
    /\ lastResp.status = 200
    /\ result.isError = FALSE
    /\ result.data = lastResp.body.json

(***************************************************************************)
(* The client without a token.                                             *)
(***************************************************************************)
NoTokenError ==
    AuthenticationError("No access token provided. Include X-Google-Access-Token header.")

\* Every outbound request carries the token of the client as a bearer token.
BearerOnEveryRequest ==
    \A i \in 1..Len(netLog) :
        /\ Truthy(token)
        /\ netLog[i].headers.Authorization = "Bearer " \o token[1]

\* C22 as stated: without a token every client method, testConnection
\* included, fails with an AuthenticationError and sends nothing; with a
\* token every request carries it as a bearer token.
C22_AsStated ==
    /\ (invoked # <<>> /\ ~Truthy(token))
         => /\ pc = "done"
            /\ netLog = <<>>
            /\ returned = Throw(NoTokenError)
    /\ BearerOnEveryRequest

\* C22: without a token (absent or empty) every client method ends before
\* any outbound request is sent, failing with an AuthenticationError, except
\* testConnection, which returns connected = false with that error's
\* message; with a token every request carries it as a bearer token.
C22_FailsClosed ==
    /\ (invoked # <<>> /\ ~Truthy(token))
         => /\ pc = "done"
            /\ netLog = <<>>
            /\ IF invoked[1] = "testConnection"
               THEN returned = Return(ConnectionReport(FALSE, NoTokenError.message))
               ELSE returned = Throw(NoTokenError)
    /\ BearerOnEveryRequest

\* appendText on a client whose token is the empty string failed with an
\* AuthenticationError and read nothing.
C22_Witness ==
    /\ token = Str("")
    /\ invoked = <<"appendText">>
    /\ pc = "done"
    /\ netLog = <<>>
    /\ returned.threw
    /\ returned.error.name = "AuthenticationError"

(***************************************************************************)
(* appendText: read, then insert.                                          *)
(***************************************************************************)
\* C23: in appendText the read of the document comes first and the insert
\* is sent only in the step that receives a successful answer to the read;
\* when the read fails, no batch update is sent and the method fails with
\* that same failure.
C23_ReadBeforeInsert ==
    [][(invoked = <<"appendText">> /\ pc = "awaiting" /\ Len(netLog) = 1)
         => /\ netLog[1].method = "GET"
            /\ outcome'.threw
                 => /\ netLog' = netLog
                    /\ pc' = "done"
                    /\ returned' = outcome'
            /\ netLog' # netLog
                 => /\ ~outcome'.threw
                    /\ ok(lastResp'.status)
                    /\ Len(netLog') = 2
                    /\ netLog'[1] = netLog[1]
                    /\ IsBatchUpdateRequest(netLog'[2])
      ]_vars

\* The read of an append was refused with status 403: the append failed
\* with the AuthenticationError of the read, and no insert was sent.
C23_Witness ==
    /\ invoked = <<"appendText">>
    /\ pc = "done"
    /\ Len(netLog) = 1
    /\ netLog[1].method = "GET"
    /\ lastResp.status = 403
    /\ returned.threw
    /\ returned.error.name = "AuthenticationError"

(***************************************************************************)
(* appendText on documents without a usable end index.                     *)
(***************************************************************************)
\* The document read has no body, no content, an empty content list, or a
\* last block without an end index or with end index 0.
NoEndIndex ==
    \/ FetchedBlocks = <<>>
    \/ FetchedBlocks[Len(FetchedBlocks)].endIndex \in {<<>>, <<0>>}

\* C24: appendText never fails locally: once its read has succeeded it
\* always sends the insert, at an index of at least 1, and at index 1 when
\* the document read has no body, no content or no end index in its last
\* block.
C24_NeverFailsLocally ==
    /\ (invoked = <<"appendText">> /\ pc = "done" /\ Len(netLog) = 1) => outcome.threw
    /\ AppendSent
         => /\ netLog[2].body.requests[1].insertText.location.index.n >= 1
            /\ NoEndIndex
                 => netLog[2].body.requests[1].insertText.location.index = JNum(1)

\* The read of an append was answered with status 204, which the request
\* helper takes as a success with no value: the append ended there with a
\* TypeError, no insert sent.
C24_LocalFailure ==
    /\ invoked = <<"appendText">>
    /\ pc = "done"
    /\ Len(netLog) = 1
    /\ lastResp.status = 204
    /\ ~outcome.threw
    /\ returned = Throw(TypeError)

\* The read returned a document without a body and the insert went to 1.
C24_IndexOne ==
    /\ AppendSent
    /\ lastResp.body.json.body = <<>>
    /\ netLog[2].body.requests[1].insertText.location.index = JNum(1)

(***************************************************************************)
(* The formatting tools that build their style from the arguments given.   *)
(***************************************************************************)
\* C25: googledocs_format_text and googledocs_format_paragraph called with
\* valid arguments and none of their style arguments end at once with a
\* success envelope saying that no changes were specified, with an empty
\* object as data; no client method is invoked and no request is sent,
\* with or without a token.
C25_NoChangesNoCall ==
    (pc # "idle" /\ NoStyleGiven /\ SchemaAccepts(call.tool, call.args))
    => /\ pc = "done"
       /\ result.kind = "success"
       /\ result.isError = FALSE
       /\ result.message = IF call.tool = "googledocs_format_text"
                           THEN "No formatting changes specified"
                           ELSE "No paragraph formatting changes specified"
       /\ result.data = [t |-> "object"]
       /\ invoked = <<>>
       /\ netLog = <<>>
       /\ lastResp = NoResponse

\* googledocs_format_paragraph with a range and no style argument, on a
\* client without a token, reported that nothing was specified.
C25_Witness ==
    /\ pc = "done"
    /\ call.tool = "googledocs_format_paragraph"
    /\ NoStyleGiven
    /\ call.args.startIndex.t = "number"
    /\ token = Absent
    /\ result.message = "No paragraph formatting changes specified"
    /\ result.isError = FALSE
    /\ netLog = <<>>

\* The style arguments of the two tools in the order their handlers test
\* them, and a call of either tool that reached the network.
StyleOrder(tool) ==
    IF tool = "googledocs_format_text"
    THEN <<"bold", "italic", "underline", "strikethrough", "fontSize", "fontFamily">>
    ELSE <<"alignment", "headingType", "lineSpacing", "spaceAbove", "spaceBelow">>
GivenStyleArgs == SelectSeq(StyleOrder(call.tool), LAMBDA f : call.args[f].t # "undefined")
StyleSent ==
    /\ pc # "idle"
    /\ call.tool \in {"googledocs_format_text", "googledocs_format_paragraph"}
    /\ Len(netLog) >= 1
SentStyleOperation ==
    IF call.tool = "googledocs_format_text"
    THEN [style |-> netLog[1].body.requests[1].updateTextStyle.textStyle,
          fields |-> netLog[1].body.requests[1].updateTextStyle.fields]
    ELSE [style |-> netLog[1].body.requests[1].updateParagraphStyle.paragraphStyle,
          fields |-> netLog[1].body.requests[1].updateParagraphStyle.fields]
\* The style property an argument populates and the value it is given.
StyleProperty(f) ==
    CASE f = "fontFamily" -> "weightedFontFamily"
      [] f = "headingType" -> "namedStyleType"
      [] OTHER -> f
StyleValue(f, v) ==
    CASE f \in {"fontSize", "spaceAbove", "spaceBelow"} -> [magnitude |-> v, unit |-> "PT"]
      [] f = "fontFamily" -> [fontFamily |-> v]
      [] OTHER -> v

\* C26 as stated: the field mask names the style arguments provided, in
\* declaration order, and the style object has exactly those properties.
C26_AsStated ==
    StyleSent =>
        /\ SentStyleOperation.fields = JStr(JoinComma(GivenStyleArgs))
        /\ DOMAIN SentStyleOperation.style
               = {GivenStyleArgs[i] : i \in 1..Len(GivenStyleArgs)}

\* C26 (amended): the field mask lists, in declaration order, one style
\* property per style argument provided, and the style object has exactly
\* those properties, each holding its argument's value; the property has
\* the argument's name except that fontFamily populates weightedFontFamily
\* and headingType populates namedStyleType.  A false flag and a zero
\* spacing are provided values and are sent.
C26_MaskFollowsArguments ==
    StyleSent =>
        LET given == GivenStyleArgs
            props == [i \in 1..Len(given) |-> StyleProperty(given[i])]
        IN  /\ Len(given) >= 1
            /\ SentStyleOperation.fields = JStr(JoinComma(props))
            /\ DOMAIN SentStyleOperation.style = {props[i] : i \in 1..Len(props)}
            /\ \A i \in 1..Len(given) :
                   SentStyleOperation.style[props[i]]
                       = StyleValue(given[i], call.args[given[i]])

\* googledocs_format_paragraph with a heading type and spaceAbove = 0 sent
\* the mask "namedStyleType,spaceAbove" with a zero magnitude.
C26_Witness ==
    /\ StyleSent
    /\ call.tool = "googledocs_format_paragraph"
    /\ call.args.headingType.t = "string"
    /\ call.args.spaceAbove = JNum(0)
    /\ call.args.alignment.t = "undefined"
    /\ call.args.lineSpacing.t = "undefined"
    /\ call.args.spaceBelow.t = "undefined"
    /\ SentStyleOperation.fields = JStr("namedStyleType,spaceAbove")
    /\ SentStyleOperation.style.spaceAbove = [magnitude |-> JNum(0), unit |-> "PT"]

\* googledocs_format_text with bold = false alone sent the mask "bold".
C26_FalseIsSent ==
    /\ StyleSent
    /\ call.tool = "googledocs_format_text"
    /\ call.args.bold = JBool(FALSE)
    /\ SentStyleOperation.fields = JStr("bold")
    /\ SentStyleOperation.style = [bold |-> JBool(FALSE)]

(***************************************************************************)
(* Images.                                                                 *)
(***************************************************************************)
ImageSent ==
    /\ pc # "idle"
    /\ call.tool = "googledocs_insert_image"
    /\ Len(netLog) >= 1
SentImage == netLog[1].body.requests[1].insertInlineImage

\* C27: the insert-inline-image operation carries an object size exactly
\* when both width and height are given, and then it is the two dimensions
\* as magnitudes in points; with one dimension or none the operation sent
\* has no object size member, so the single dimension given is not sent.
C27_ObjectSizeNeedsBoth ==
    ImageSent =>
        /\ Len(netLog[1].body.requests) = 1
        /\ SentImage.uri = call.args.uri
        /\ SentImage.location = [index |-> call.args.index]
        /\ IF call.args.width.t # "undefined" /\ call.args.height.t # "undefined"
           THEN /\ DOMAIN SentImage = {"uri", "location", "objectSize"}
                /\ SentImage.objectSize
                     = [width |-> [magnitude |-> call.args.width, unit |-> "PT"],
                        height |-> [magnitude |-> call.args.height, unit |-> "PT"]]
           ELSE DOMAIN SentImage = {"uri", "location"}

\* An image inserted with a width and no height was sent without object size.
C27_Witness ==
    /\ ImageSent
    /\ call.args.width.t = "number"
    /\ call.args.height.t = "undefined"
    /\ "objectSize" \notin DOMAIN SentImage

\* An image inserted with both dimensions was sent with both in points.
C27_BothSent ==
    /\ ImageSent
    /\ call.args.width.t = "number"
    /\ call.args.height.t = "number"
    /\ SentImage.objectSize.width.unit = "PT"
    /\ SentImage.objectSize.height.magnitude = call.args.height

(***************************************************************************)
(* testConnection and the googledocs_test_connection tool.                 *)
(***************************************************************************)
ConnectionTested == pc = "done" /\ call.tool = "googledocs_test_connection"
IsCreateDocumentRequest(r) ==
    /\ r.method = "POST"
    /\ r.url = <<API_BASE_URL, "/documents">>
    /\ DOMAIN r.body = {"title"}
\* The report of the tool never carries the error flag and is the value
\* testConnection returned.
ConnectionNeverFlagged ==
    /\ invoked = <<"testConnection">>
    /\ returned.threw = FALSE
    /\ result.isError = FALSE
    /\ result.data = returned.value
    /\ \A i \in 1..Len(netLog) : IsCreateDocumentRequest(netLog[i])

\* C28 as stated: testConnection sends exactly one create-document request
\* and never throws; it returns connected = true with the document's id
\* when the request succeeds and connected = false with the failure's
\* message when it fails, and the tool never sets the error flag.
C28_AsStated ==
    ConnectionTested =>
        /\ ConnectionNeverFlagged
        /\ Len(netLog) = 1
        /\ IF outcome.threw
           THEN returned.value = ConnectionReport(FALSE, outcome.error.message)
           ELSE returned.value.connected

\* C28 (amended): testConnection never throws and the tool never sets the
\* error flag.  Without a token it sends nothing and returns connected =
\* false with the missing-token message; with a token it sends exactly one
\* create-document request, and returns connected = false with the
\* failure's message when the request fails, connected = false when the
\* request succeeds with no value (204) or with JSON null, and connected =
\* true in every other case, with a message ending in the documentId of the
\* value returned (the text "undefined" when the value has none, as a JSON
\* number or array has none).
C28_NeverFails ==
    ConnectionTested =>
        /\ ConnectionNeverFlagged
        /\ IF ~Truthy(token)
           THEN /\ netLog = <<>>
                /\ returned.value = ConnectionReport(FALSE, NoTokenError.message)
           ELSE /\ Len(netLog) = 1
                /\ IF outcome.threw
                   THEN returned.value = ConnectionReport(FALSE, outcome.error.message)
                   ELSE IF outcome.value.t \in {"undefined", "null"}
                   THEN /\ returned.value.connected = FALSE
                        /\ returned.value.message = TypeError.message
                   ELSE /\ returned.value.connected
                        /\ returned.value.message
                             = "Successfully connected to Google Docs API. "
                               \o "Test document created with ID: "
                               \o (IF outcome.value.t = "object"
                                      /\ outcome.value.documentId # <<>>
                                   THEN outcome.value.documentId[1]
                                   ELSE "undefined")

\* The create-document request of testConnection was answered 500 and the
\* tool reported connected = false without the error flag.
C28_Witness ==
    /\ ConnectionTested
    /\ Len(netLog) = 1
    /\ lastResp.status = 500
    /\ outcome.threw
    /\ returned.value.t = "connection"
    /\ returned.value.connected = FALSE
    /\ returned.value.message = outcome.error.message
    /\ result.isError = FALSE

\* The request was answered 200 with a JSON number: connected = true, the
\* id reported as undefined.
C28_ConnectedWithoutDocument ==
    /\ ConnectionTested
    /\ lastResp.status = 200
    /\ lastResp.body = JsonBody(JNonObject("number"))
    /\ returned.value.t = "connection"
    /\ returned.value.connected
    /\ returned.value.message
         = "Successfully connected to Google Docs API. Test document created with ID: undefined"
    /\ result.isError = FALSE

\* The request was answered 204: connected = false, no error flag.
C28_NoValue ==
    /\ ConnectionTested
    /\ lastResp.status = 204
    /\ returned.value.t = "connection"
    /\ returned.value.connected = FALSE
    /\ result.isError = FALSE

\* The request was answered with a document and the report names its id.
C28_Connected ==
    /\ ConnectionTested
    /\ lastResp.status = 200
    /\ returned.value.t = "connection"
    /\ returned.value.connected
    /\ returned.value.message
         = "Successfully connected to Google Docs API. Test document created with ID: d/1"

(***************************************************************************)
(* The precedence of the routes.                                           *)
(***************************************************************************)
Received == inbound # NoInbound
\* The request is on the MCP branch: refused for its credentials, waiting
\* with a server built on them for the MCP handler, being served by that
\* server, or answered by the MCP handler.
OnMcpBranch ==
    \/ httpReply.status = 401 /\ ~serverBuilt /\ token = Absent
    \/ /\ serverBuilt
       /\ \/ /\ httpReply = NoReply
             /\ pc = "idle"
             /\ ctx[1].state = "admitted"
             /\ ctx[1].inbound = inbound
             /\ ctx[1].credentials.accessToken = inbound.header
             /\ token = inbound.header
          \/ httpReply = NoReply /\ pc # "idle" /\ token = inbound.header
          \/ httpReply.status = 200 /\ httpReply.body.t = "mcp" /\ pc = "idle"

\* C29: a request to /health gets the health body whatever its method; then
\* a POST to /mcp takes the MCP branch, the only one that resolves
\* credentials, refuses with 401 or builds a server; then /sse is answered
\* 501 whatever the method and header; every other request, a non-POST
\* request to /mcp included, gets the static metadata with status 200.
C29_Precedence ==
    Received =>
        /\ IF inbound.path = "/health"
           THEN httpReply = [status |-> 200, body |-> HealthBody]
           ELSE IF inbound.path = "/mcp" /\ inbound.method = "POST"
           THEN OnMcpBranch
           ELSE IF inbound.path = "/sse"
           THEN httpReply.status = 501
           ELSE httpReply = [status |-> 200, body |-> InfoBody]
        /\ (httpReply.status = 401 \/ serverBuilt \/ token # Absent)
              => (inbound.path = "/mcp" /\ inbound.method = "POST")

\* A GET of /mcp without a credential header got the metadata, not a 401.
C29_Witness ==
    /\ inbound.path = "/mcp"
    /\ inbound.method = "GET"
    /\ inbound.header = Absent
    /\ httpReply.status = 200
    /\ httpReply.body = InfoBody
    /\ ~serverBuilt

\* A POST to /sse carrying a token was answered 501 and one to /health
\* without a header got the health body.
C29_SseAnswered ==
    /\ inbound.path = "/sse"
    /\ inbound.method = "POST"
    /\ inbound.header = Str("tokA")
    /\ httpReply.status = 501
C29_HealthPosted ==
    /\ inbound.path = "/health"
    /\ inbound.method = "POST"
    /\ inbound.header = Absent
    /\ httpReply.body = HealthBody

====
